---- MODULE Spec2Model ----
(***************************************************************************)
(* State-machine model of the OAuth 2.0 service core (lib/handlers,        *)
(* lib/grants, lib/models).  Every endpoint invocation is a task; a task   *)
(* takes one step per awaited Model call, the synchronous code that        *)
(* follows the await being part of that step.  The Model (the data-access  *)
(* backend) is the only state shared by tasks.                             *)
(*                                                                         *)
(* The request is fixed on arrival.  A request constructor validates its   *)
(* parameters one by one, independently; the model decides at the parse    *)
(* whether it throws, and draws the value of a parameter that passed at    *)
(* the step where the code first acts on that value.                       *)
(***************************************************************************)
EXTENDS Integers, Sequences, FiniteSets, TLC

\* JavaScript `undefined` (an absent parameter, a missing property, a
\* falsy Model result).
NULL == "null"

\* ------------------------------------------------------------------------
\* Bounds of the model
\* ------------------------------------------------------------------------
\* endpoint invocations started in one behaviour
MaxRequests == 2
\* clock advances in one behaviour
MaxTicks == 1

\* The concurrent endpoint invocations (two tasks interleave).
Tasks == {"t1", "t2"}

\* ------------------------------------------------------------------------
\* Program constants (option defaults)
\* ------------------------------------------------------------------------
AccessTokenLifetime == 1800
RefreshTokenLifetime == 86400
AuthorizationCodeLifetime == 300

\* seconds that pass in one clock advance: one authorization code lifetime,
\* so that a code issued at the start is at its expiry instant after one
\* advance
TickStep == AuthorizationCodeLifetime

\* ------------------------------------------------------------------------
\* Strings of the model and the character-class validators (validator/is.js)
\* `RegExp.test(undefined)` tests the string "undefined".
\* ------------------------------------------------------------------------
EMPTY == ""
\* a value holding a line feed: outside every character class
BADSTR == "bad\nvalue"

UriApp == "https://app/cb"
UriOther == "https://other/cb?foo=1"
NotUri == "not-a-uri"

UriStrings == {UriApp, UriOther, "urn:ietf:params:oauth:grant-type:saml2-bearer"}

nchar(value) == value \notin {EMPTY, BADSTR} \union UriStrings

nqschar(value) == value \notin {EMPTY, BADSTR}

vschar(value) == value \notin {EMPTY, BADSTR}

uchar(value) == value \notin {EMPTY, BADSTR}

uri(value) == value \in UriStrings

\* url.parse(uri, parseQueryString) of a redirect URI: the part before the
\* query string, the query string (`search`) as its parameters in order,
\* the query object (filled only when the query string is parsed) and the
\* fragment.
UrlParse(value, parseQueryString) ==
  LET search == IF value = UriOther THEN <<[k |-> "foo", v |-> "1"]>>
                ELSE <<>>
  IN [path |-> IF value = UriOther THEN "https://other/cb" ELSE value,
      search |-> search,
      query |-> IF parseQueryString THEN search ELSE <<>>,
      hash |-> <<>>]

\* url.format(urlObject) as a Location header: the query string is
\* `search` when that is set and is built from the query object otherwise.
UrlFormat(urlObject) ==
  [set |-> TRUE, uri |-> urlObject.path,
   query |-> IF urlObject.search # <<>> THEN urlObject.search
             ELSE urlObject.query,
   hash |-> urlObject.hash]

\* ------------------------------------------------------------------------
\* Error taxonomy (lib/errors): the status each error kind carries
\* ------------------------------------------------------------------------
ErrorStatus(name) ==
  CASE name = "invalid_token" -> 401
    [] name = "unauthorized_request" -> 401
    [] name = "insufficient_scope" -> 403
    [] name = "server_error" -> 500
    [] name = "invalid_argument" -> 500
    [] OTHER -> 400

\* A non-OAuth exception raised by the engine's own code (a TypeError).
TypeError == "TypeError"

\* A non-OAuth exception thrown by a Model call (a plain Error).
ModelError == "Error"

OAuthErrors ==
  {"invalid_request", "invalid_client", "invalid_grant", "invalid_scope",
   "invalid_token", "unauthorized_client", "unauthorized_request",
   "unsupported_grant_type", "unsupported_response_type",
   "unsupported_token_type", "access_denied", "insufficient_scope",
   "server_error", "invalid_argument"}

\* ------------------------------------------------------------------------
\* The Model's registered clients and users (data owned by the backend)
\* ------------------------------------------------------------------------
GRANT_AC == "authorization_code"
GRANT_CC == "client_credentials"
GRANT_PW == "password"
GRANT_RT == "refresh_token"

\* c1: a client as the data model describes it (no `user` property)
\* c2: a client record that also carries a `user` property and its own
\*     accessTokenLifetime; it is not allowed the password and implicit
\*     grants
\* c3: a client that is allowed the implicit grant alone and carries its
\*     own accessTokenLifetime
\* A lifetime of 0 stands for a record without that property.
\* c4: a record without `grants` (a Model contract violation)
ClientIds == {"c1", "c2", "c3", "c4"}

ClientSecret == "s3cret"

ClientRecord(id) ==
  CASE id = "c1" -> [id |-> "c1", hasGrants |-> TRUE,
                     grants |-> {GRANT_AC, GRANT_CC, GRANT_PW, GRANT_RT, "implicit"},
                     redirectUris |-> {UriApp}, user |-> NULL,
                     accessTokenLifetime |-> 0, refreshTokenLifetime |-> 0]
    [] id = "c2" -> [id |-> "c2", hasGrants |-> TRUE,
                     grants |-> {GRANT_AC, GRANT_CC, GRANT_RT},
                     redirectUris |-> {UriApp, UriOther}, user |-> "carol",
                     accessTokenLifetime |-> 2 * AccessTokenLifetime,
                     refreshTokenLifetime |-> 0]
    [] id = "c3" -> [id |-> "c3", hasGrants |-> TRUE,
                     grants |-> {"implicit"},
                     redirectUris |-> {UriApp}, user |-> NULL,
                     accessTokenLifetime |-> 2 * AccessTokenLifetime,
                     refreshTokenLifetime |-> 0]
    [] OTHER     -> [id |-> id, hasGrants |-> FALSE,
                     grants |-> {},
                     redirectUris |-> {UriApp}, user |-> NULL,
                     accessTokenLifetime |-> 0, refreshTokenLifetime |-> 0]

\* Model.getClient(clientId, clientSecret): the set holding the client
\* found, or the empty set (a falsy result).  A secret, when given, must
\* match; the Authorize endpoint looks the client up without a secret.
ModelGetClient(clientId, clientSecret) ==
  IF clientId \in ClientIds /\ clientSecret \in {NULL, ClientSecret}
  THEN {ClientRecord(clientId)}
  ELSE {}

UserPassword == "pw"

\* Model.getUser(username, password): the user, or NULL
ModelGetUser(username, password) ==
  IF username = "alice" /\ password = UserPassword THEN "alice" ELSE NULL

\* Model.getUserFromClient(client): the user tied to the client, or NULL
ModelGetUserFromClient(clientId) ==
  IF clientId = "c2" THEN "carol" ELSE NULL

ValidScopes == {"read", "write"}

\* Model.validateScope(client, user, scope): the validated scope, or NULL
ModelValidateScope(scope) ==
  IF scope \in ValidScopes THEN scope ELSE NULL

\* Model.verifyScope(token, requiredScope): truthy iff the token's scope
\* covers the required scope
ModelVerifyScope(tokenScope, requiredScope) == tokenScope = requiredScope

\* ------------------------------------------------------------------------
\* State
\* ------------------------------------------------------------------------
VARIABLES
  now,        \* the clock, in seconds
  ticks,      \* clock advances so far
  codes,      \* Model: the stored authorization code records
  tokens,     \* Model: the stored token records
  nextId,     \* values the random-token generator has produced
  started,    \* endpoint invocations started so far
  capValidateScope, \* whether the Model implements validateScope()
  task,       \* per task: the invocation in progress
  observed,   \* per authorization code: the Model calls of its redemptions
  call,       \* the facade call whose options are being resolved
  options     \* the server's default option records

vars == <<now, ticks, codes, tokens, nextId, started, capValidateScope,
          task, observed, call, options>>

\* No revokeAuthorizationCode call, none that returned a truthy value and
\* no saveToken call observed yet.
NoneObserved == [revoke |-> 0, truthy |-> 0, saveToken |-> 0]

\* The values the random-token generator yields, in order (utils/token.js:
\* each call yields a string no earlier call has yielded).
generateRandomToken(n) == <<"k1", "k2", "k3", "k4", "k5", "k6", "k7", "k8",
                            "k9", "k10", "k11", "k12">>[n + 1]

\* A truthiness test on a string-valued property.
Falsy(v) == v \in {NULL, EMPTY}

\* The token record a grant has built and is about to persist
\* (`client` is the `id` of the object passed as the client).
NoToken ==
  [client |-> NULL, hasClient |-> FALSE, user |-> NULL, scope |-> NULL,
   accessToken |-> NULL, accessTokenExpiresAt |-> 0,
   refreshToken |-> NULL, refreshTokenExpiresAt |-> 0]

\* The Location header of a response: whether it is set, the URI up to
\* its query string, and the parameters of its query string and of its
\* fragment, in order.
NoLocation == [set |-> FALSE, uri |-> NULL, query |-> <<>>, hash |-> <<>>]

\* The authorization code record the Authorize endpoint has built.
NoCode ==
  [authorizationCode |-> NULL, client |-> NULL, hasClient |-> FALSE,
   user |-> NULL, scope |-> NULL, redirectUri |-> NULL,
   expiresAt |-> 0, hasExpiresAt |-> FALSE]

\* The token records the Model holds at the start: one issued at time 0
\* with the default access token lifetime and a refresh token that does
\* not expire (refreshTokenExpiresAt is optional: validateRefreshToken
\* checks it only when present), one whose access token and refresh token
\* are at their expiry instant after one clock advance, one whose tokens
\* are past it by then.
SeedTokens ==
  {[client |-> "c1", hasClient |-> TRUE, user |-> "alice", scope |-> "read",
    accessToken |-> "a1", accessTokenExpiresAt |-> AccessTokenLifetime,
    refreshToken |-> "r1", refreshTokenExpiresAt |-> 0],
   [client |-> "c2", hasClient |-> TRUE, user |-> "bob", scope |-> "read",
    accessToken |-> "a2", accessTokenExpiresAt |-> TickStep,
    refreshToken |-> "r2", refreshTokenExpiresAt |-> TickStep],
   [client |-> "c2", hasClient |-> TRUE, user |-> "carol", scope |-> "write",
    accessToken |-> "a3", accessTokenExpiresAt |-> TickStep - 1,
    refreshToken |-> "r3", refreshTokenExpiresAt |-> TickStep - 1]}

\* The authorization code records the Model holds at the start: one
\* issued at time 0 (at its expiry instant after one clock advance), one
\* issued just before (past its expiry by then), and one the Model stored
\* without expiresAt.
SeedCodes ==
  {[authorizationCode |-> "ac1", client |-> "c1", hasClient |-> TRUE,
    user |-> "alice", scope |-> "read", redirectUri |-> UriApp,
    expiresAt |-> AuthorizationCodeLifetime, hasExpiresAt |-> TRUE],
   [authorizationCode |-> "ac2", client |-> "c2", hasClient |-> TRUE,
    user |-> "bob", scope |-> "write", redirectUri |-> UriOther,
    expiresAt |-> AuthorizationCodeLifetime - 1, hasExpiresAt |-> TRUE],
   [authorizationCode |-> "ac3", client |-> "c2", hasClient |-> TRUE,
    user |-> "bob", scope |-> "read", redirectUri |-> UriApp,
    expiresAt |-> 0, hasExpiresAt |-> FALSE]}

\* The body of an introspection response: none yet, {active: false}, or
\* {active: true, client_id, username, scope, expires_at}.
NoResult ==
  [set |-> FALSE, active |-> FALSE, client_id |-> NULL, username |-> NULL,
   scope |-> NULL, expires_at |-> 0]

Inactive == [NoResult EXCEPT !.set = TRUE]

\* A task that handles no request.
IdleTask ==
  [pc |-> "idle", ep |-> "none", shape |-> NULL,
   grantType |-> NULL, clientId |-> NULL,
   alwaysIssueNewRefreshToken |-> TRUE,
   allowExtendedTokenAttributes |-> FALSE, customAttributes |-> FALSE,
   client |-> NULL, cred |-> NULL, credUser |-> NULL, credScope |-> NULL,
   reqRedirectUri |-> NULL, reqScope |-> NULL, reqState |-> NULL,
   user |-> NULL,
   header |-> "absent", inQuery |-> FALSE, inBody |-> FALSE,
   headers |-> {},
   scope |-> NULL, handler |-> "none", responseType |-> NULL,
   tokenHint |-> NULL, result |-> NoResult, expires_in |-> 0,
   t0 |-> 0, calls |-> <<>>, token |-> NoToken, code |-> NoCode,
   generated |-> "none",
   status |-> 200, error |-> NULL, rejected |-> NULL, body |-> NoToken, returned |-> NULL,
   location |-> NoLocation, wwwAuthenticate |-> NULL]

\* The task after the Model call `name` has returned to it; `ok` tells
\* whether the value returned is truthy.
Called(tk, name, ok) ==
  [tk EXCEPT !.calls = Append(@, [op |-> name, ok |-> ok])]

\* ------------------------------------------------------------------------
\* Token endpoint (handlers/token)
\* ------------------------------------------------------------------------
allowedGrants == {GRANT_AC, GRANT_CC, GRANT_PW, GRANT_RT}

requireClientAuthentication(grantType) == grantType \in {GRANT_PW, GRANT_RT}

\* The headers TokenResponse sets on every response, as name and value.
TokenHeaders ==
  {<<"Content-Type", "application/json;charset=UTF-8">>,
   <<"Cache-Control", "no-store">>, <<"Pragma", "no-cache">>}

\* The Authorization header of the request as the catch of a client
\* endpoint has seen it: setErrorResponse looks at isAuthorizationHeader
\* only when the error is invalid_client.
AuthorizationSeen(e, isAuthorizationHeader) ==
  IF e = "invalid_client" /\ isAuthorizationHeader THEN "basic" ELSE "absent"

\* Fault: setErrorResponse answers invalid_client with 401 and
\* WWW-Authenticate whether or not the request carried an Authorization
\* header.
TokenSetErrorResponseAlwaysChallenge(tk, e, isAuthorizationHeader) ==
  IF e = "invalid_client"
  THEN [tk EXCEPT !.pc = "done", !.error = e, !.status = 401,
                  !.headers = TokenHeaders,
                  !.header = AuthorizationSeen(e, isAuthorizationHeader),
                  !.wwwAuthenticate = "Basic realm=\"Service\""]
  ELSE LET err == IF e \in OAuthErrors THEN e ELSE "server_error"
       IN [tk EXCEPT !.pc = "done", !.error = err, !.status = ErrorStatus(err),
                     !.headers = TokenHeaders]

\* TokenResponse.setErrorResponse: the task after the endpoint's catch has
\* shaped the error response (the body is {error, error_description}).
TokenSetErrorResponse(tk, e, isAuthorizationHeader) ==
  IF e = "invalid_client" /\ isAuthorizationHeader
  THEN [tk EXCEPT !.pc = "done", !.error = e, !.status = 401,
                  !.headers = TokenHeaders,
                  !.header = AuthorizationSeen(e, isAuthorizationHeader),
                  !.wwwAuthenticate = "Basic realm=\"Service\""]
  ELSE LET err == IF e \in OAuthErrors THEN e ELSE "server_error"
       IN [tk EXCEPT !.pc = "done", !.error = err, !.status = ErrorStatus(err),
                     !.headers = TokenHeaders]

\* Fault: setErrorResponse adds the WWW-Authenticate header whatever the
\* error is.
AuthenticateSetErrorResponseAnyError(tk, e) ==
  LET err == IF e \in OAuthErrors THEN e ELSE "server_error"
  IN [tk EXCEPT !.error = err, !.status = ErrorStatus(err),
                !.wwwAuthenticate = "Bearer realm=\"Service\""]

\* AuthenticateResponse.setErrorResponse: the task after the catch of
\* AuthenticateHandler.execute has shaped the error response.
AuthenticateSetErrorResponse(tk, e) ==
  LET err == IF e \in OAuthErrors THEN e ELSE "server_error"
  IN [tk EXCEPT !.error = err, !.status = ErrorStatus(err),
                !.wwwAuthenticate =
                  IF e = "unauthorized_request"
                  THEN "Bearer realm=\"Service\"" ELSE @]

\* The parameters setErrorResponse adds to the query object (every error
\* the endpoint throws carries a message).
ErrorParameters(e) ==
  <<[k |-> "error", v |-> e], [k |-> "error_description", v |-> "message"]>>

\* Fault: setErrorResponse redirects whatever the error is.
AuthorizeSetErrorResponseAlwaysRedirect(tk, e) ==
  LET redirectUri == IF ~Falsy(tk.reqRedirectUri)
                     THEN UrlParse(tk.reqRedirectUri, TRUE)
                     ELSE [path |-> EMPTY, search |-> <<>>, query |-> <<>>,
                           hash |-> <<>>]
  IN [tk EXCEPT !.pc = "done", !.error = e, !.status = 302,
                !.location = UrlFormat([redirectUri EXCEPT
                                          !.query = @ \o ErrorParameters(e)])]

\* AuthorizationResponse.setErrorResponse(error, uri): the task after the
\* catch of AuthorizeHandler.execute has shaped the error response; `uri`
\* is the redirect_uri of the request body or query, parsed with its
\* query string, or an object with an empty query when there is none.
AuthorizeSetErrorResponse(tk, e) ==
  IF e \in {"invalid_client", "unauthorized_request"}
  THEN [tk EXCEPT !.pc = "done", !.error = e, !.status = 401]
  ELSE LET redirectUri == IF ~Falsy(tk.reqRedirectUri)
                          THEN UrlParse(tk.reqRedirectUri, TRUE)
                          ELSE [path |-> EMPTY, search |-> <<>>,
                                query |-> <<>>, hash |-> <<>>]
       IN [tk EXCEPT !.pc = "done", !.error = e, !.status = 302,
                     !.location =
                       UrlFormat([redirectUri EXCEPT
                                    !.query = @ \o ErrorParameters(e)])]

\* IntrospectResponse.setErrorResponse(error, isAuthorizationHeader).
IntrospectSetErrorResponse(tk, e, isAuthorizationHeader) ==
  IF e = "invalid_client" /\ isAuthorizationHeader
  THEN [tk EXCEPT !.pc = "done", !.error = e, !.status = 401,
                  !.wwwAuthenticate = "Basic realm=\"Service\""]
  ELSE LET err == IF e \in OAuthErrors THEN e ELSE "server_error"
       IN [tk EXCEPT !.pc = "done", !.error = err, !.status = ErrorStatus(err)]

\* RevokeResponse.setErrorResponse(error, isAuthorizationHeader): errors
\* of parsing and of client authentication are answered as on the
\* Introspect endpoint.
RevokeSetErrorResponse(tk, e, isAuthorizationHeader) ==
  IntrospectSetErrorResponse(tk, e, isAuthorizationHeader)

\* An error thrown inside an endpoint's execute: the endpoint's catch
\* shapes the error response and rethrows.  An error thrown by the bearer
\* authenticate handler inside the Authorize endpoint passes through both
\* catches.
Caught(tk, e, isAuthorizationHeader) ==
  CASE tk.ep = "token" -> TokenSetErrorResponse(tk, e, isAuthorizationHeader)
    [] tk.ep = "introspect" ->
         IntrospectSetErrorResponse(tk, e, isAuthorizationHeader)
    [] tk.ep = "revoke" -> RevokeSetErrorResponse(tk, e, isAuthorizationHeader)
    [] tk.ep = "authenticate" ->
         [AuthenticateSetErrorResponse(tk, e) EXCEPT !.pc = "done"]
    [] tk.ep = "authorize" /\ tk.pc \in {"getAccessToken", "verifyScope"} ->
         AuthorizeSetErrorResponse(AuthenticateSetErrorResponse(tk, e), e)
    [] OTHER -> AuthorizeSetErrorResponse(tk, e)

\* Fault: the catch shapes the error response and does not rethrow, so
\* execute resolves.
ThrowSwallowed(tk, e, isAuthorizationHeader) ==
  Caught(tk, e, isAuthorizationHeader)

\* The catch of execute: the error response is written, then `throw e`
\* rejects the promise of execute with the error that was caught.
Throw(tk, e, isAuthorizationHeader) ==
  [Caught(tk, e, isAuthorizationHeader) EXCEPT !.rejected = e]

RequestShapes == {"form-post", "get", "json-post"}

\* TokenRequest constructor: the error it throws, or NULL.  `required` is
\* the set of the grant types g for which the option
\* requireClientAuthentication[g] is truthy.
TokenRequestErrorWith(shape, grant_type, clientId, clientSecret, required) ==
  IF shape = "get" THEN "invalid_request"
  ELSE IF shape # "form-post" THEN "invalid_request"
  ELSE IF Falsy(grant_type) THEN "invalid_request"
  ELSE IF ~nchar(grant_type) /\ ~uri(grant_type) THEN "invalid_request"
  ELSE IF grant_type \notin allowedGrants THEN "unsupported_grant_type"
  ELSE IF Falsy(clientId) THEN "invalid_request"
  ELSE IF grant_type = GRANT_PW /\ GRANT_PW \in required
          /\ Falsy(clientSecret) THEN "invalid_request"
  ELSE IF grant_type = GRANT_RT /\ GRANT_RT \in required
          /\ Falsy(clientSecret) THEN "invalid_request"
  ELSE IF ~vschar(clientId) THEN "invalid_request"
  ELSE IF ~Falsy(clientSecret) /\ ~vschar(clientSecret) THEN "invalid_request"
  ELSE NULL

\* The constructor as TokenHandler.execute calls it under the endpoint's
\* default option.
TokenRequestError(shape, grant_type, clientId, clientSecret) ==
  TokenRequestErrorWith(shape, grant_type, clientId, clientSecret,
                        {g \in allowedGrants : requireClientAuthentication(g)})

GrantTypeInputs == {NULL, BADSTR, "device_code"} \union allowedGrants
ClientIdInputs == {NULL, "c1", "c2", "c4", "cX"}
ClientSecretInputs == {NULL, ClientSecret, "wrong"}

\* The Token requests of the model.  The constructor checks the method,
\* the content type and the grant type before it reads the client
\* credentials, so these vary only on the requests that get that far.
TokenRequests ==
  LET first == {[shape |-> sh, grant_type |-> gt, client_id |-> "c1",
                 client_secret |-> ClientSecret] :
                  sh \in RequestShapes, gt \in GrantTypeInputs}
      firstOk == {r \in first :
                    TokenRequestError(r.shape, r.grant_type, r.client_id,
                                      r.client_secret) = NULL}
      second == {[r EXCEPT !.client_id = cid, !.client_secret = sec] :
                   r \in firstOk, cid \in ClientIdInputs,
                   sec \in ClientSecretInputs}
  IN first \union second

\* TokenHandler.execute up to the await of Model.getClient.
TokenExecute(t) ==
  /\ task[t].pc = "idle"
  /\ started < MaxRequests
  /\ started' = started + 1
  /\ \E r \in TokenRequests, hdr \in BOOLEAN :
       LET gt == r.grant_type
           tk == [IdleTask EXCEPT !.ep = "token", !.shape = r.shape,
                                  !.grantType = gt]
           e == TokenRequestError(r.shape, gt, r.client_id, r.client_secret)
       IN task' = [task EXCEPT ![t] =
                     IF e # NULL
                     THEN Throw(tk, e, hdr)
                     ELSE [tk EXCEPT !.pc = "getClient"]]
  /\ UNCHANGED <<call, options, now, ticks, codes, tokens, nextId, capValidateScope, observed>>

\* The client credentials of the requests that TokenRequest accepts with
\* grant type g.
ParsedCredentials(g) ==
  {cs \in ClientIdInputs \X ClientSecretInputs :
     TokenRequestError("form-post", g, cs[1], cs[2]) = NULL}

\* Fault: authenticateClient does not look the grant type up among the
\* client's grants.
authenticateClientErrorAnyGrant(found, grantType) ==
  IF found = {} THEN "invalid_client"
  ELSE LET client == CHOOSE c \in found : TRUE
       IN IF ~client.hasGrants THEN "server_error" ELSE NULL

\* TokenHandler.authenticateClient after Model.getClient has returned: the
\* error it throws, or NULL.
authenticateClientError(found, grantType) ==
  IF found = {} THEN "invalid_client"
  ELSE LET client == CHOOSE c \in found : TRUE
       IN IF ~client.hasGrants THEN "server_error"
          ELSE IF grantType \notin client.grants THEN "unauthorized_client"
          ELSE NULL

\* TokenHandler.execute: Model.getClient returned and authenticateClient
\* throws.
TokenAuthenticateClientFails(t) ==
  /\ task[t].pc = "getClient"
  /\ task[t].ep = "token"
  /\ \E cs \in ParsedCredentials(task[t].grantType), hdr \in BOOLEAN :
       LET found == ModelGetClient(cs[1], cs[2])
           tk == [Called(task[t], "getClient", found # {})
                    EXCEPT !.clientId = cs[1]]
           e == authenticateClientError(found, tk.grantType)
       IN /\ e # NULL
          /\ task' = [task EXCEPT ![t] = Throw(tk, e, hdr)]
  /\ UNCHANGED <<call, options, now, ticks, codes, tokens, nextId, started, capValidateScope,
                 observed>>

\* The ids of the clients that authenticateClient returns for grant type g.
AuthenticatedClients(g) ==
  {cs[1] : cs \in {x \in ParsedCredentials(g) :
                     authenticateClientError(ModelGetClient(x[1], x[2]), g)
                       = NULL}}

\* The task whose client is authenticated and whose grant is dispatched.
ClientAuthenticated(t, id) ==
  [Called(task[t], "getClient", TRUE) EXCEPT !.clientId = id, !.client = id]

\* processGrant is reached with grant type g.
GrantDispatched(t, g) ==
  /\ task[t].pc = "getClient"
  /\ task[t].ep = "token"
  /\ task[t].grantType = g

\* ------------------------------------------------------------------------
\* Grants: the shared base (grants/abstract-grant.js)
\* ------------------------------------------------------------------------
\* The objects a grant passes around, by the properties the code reads:
\* a client record has an `id` and maybe a `user`; an authorization code
\* record has a `user` and a `scope` and no `id`.
ClientObject(id) ==
  [kind |-> "client", id |-> id, user |-> ClientRecord(id).user, scope |-> NULL]

CodeObject(tk) ==
  [kind |-> "code", id |-> NULL, user |-> tk.credUser, scope |-> tk.credScope]

\* The lifetimes TokenHandler.processGrant (and TokenResponse.execute of
\* the Authorize endpoint) hands to the grant for the authenticated
\* client: `client.accessTokenLifetime || this.accessTokenLifetime`.
ProcessGrantOptions(clientId) ==
  LET client == ClientRecord(clientId)
  IN [accessTokenLifetime |->
        IF client.accessTokenLifetime # 0 THEN client.accessTokenLifetime
        ELSE AccessTokenLifetime,
      refreshTokenLifetime |->
        IF client.refreshTokenLifetime # 0 THEN client.refreshTokenLifetime
        ELSE RefreshTokenLifetime]

\* Fault: the grant computes accessTokenExpiresAt from the endpoint's
\* lifetime whatever the client record says.
BuildTokenDefaultLifetime(tk, client, user, scope, refresh) ==
  [tk EXCEPT
     !.pc = "saveToken",
     !.token = [client |-> client, hasClient |-> TRUE,
                user |-> user, scope |-> scope,
                accessToken |-> generateRandomToken(nextId),
                accessTokenExpiresAt |-> now + AccessTokenLifetime,
                refreshToken |->
                  IF refresh THEN generateRandomToken(nextId + 1) ELSE NULL,
                refreshTokenExpiresAt |->
                  IF refresh THEN now + RefreshTokenLifetime ELSE 0]]

\* The grant has generated the tokens and the expiry dates
\* (setAccessTokenExpiresAt, setRefreshTokenExpiresAt: the clock plus the
\* grant's lifetime), has built the token record and awaits
\* Model.saveToken(client, user, token).
\* `refresh` tells whether the record carries the refresh token.
BuildToken(tk, client, user, scope, refresh) ==
  [tk EXCEPT
     !.pc = "saveToken",
     !.token = [client |-> client, hasClient |-> TRUE,
                user |-> user, scope |-> scope,
                accessToken |-> generateRandomToken(nextId),
                accessTokenExpiresAt |->
                  now + ProcessGrantOptions(tk.client).accessTokenLifetime,
                refreshToken |->
                  IF refresh THEN generateRandomToken(nextId + 1) ELSE NULL,
                refreshTokenExpiresAt |->
                  IF refresh
                  THEN now + ProcessGrantOptions(tk.client).refreshTokenLifetime
                  ELSE 0]]

\* createToken of the authorization_code, password and client_credentials
\* grants, up to its first await: AbstractGrant.validateScope awaits
\* Model.validateScope when the Model implements it and passes the scope
\* through otherwise.
CreateTokenValidated(tk, client, user, scope, refresh) ==
  IF capValidateScope
  THEN [tk EXCEPT !.pc = "validateScope",
                  !.token = [NoToken EXCEPT
                               !.client = client, !.hasClient = TRUE,
                               !.user = user, !.scope = scope,
                               !.refreshToken =
                                 IF refresh THEN "pending" ELSE NULL]]
  ELSE BuildToken(tk, client, user, scope, refresh)

\* The generator values a step has consumed.
Consumed(new, count) ==
  IF new.pc = "saveToken" THEN nextId + count ELSE nextId

\* AbstractGrant.validateScope after Model.validateScope has returned.
GrantValidateScope(t) ==
  /\ task[t].pc = "validateScope"
  /\ task[t].ep = "token"
  /\ LET validatedScope == ModelValidateScope(task[t].token.scope)
         tk == Called(task[t], "validateScope", ~Falsy(validatedScope))
         refresh == tk.token.refreshToken # NULL
     IN \E hdr \in BOOLEAN :
          LET new == IF Falsy(validatedScope)
                     THEN Throw(tk, "invalid_scope", hdr)
                     ELSE BuildToken(tk, tk.token.client, tk.token.user,
                                     validatedScope, refresh)
          IN /\ task' = [task EXCEPT ![t] = new]
             /\ nextId' = Consumed(new, IF refresh THEN 2 ELSE 1)
  /\ UNCHANGED <<call, options, now, ticks, codes, tokens, started, capValidateScope, observed>>

\* TokenModel constructor (models/token.js): the accessTokenLifetime it
\* derives from the record `data` at time `time`, the whole seconds left
\* until accessTokenExpiresAt; BearerToken.valueOf puts it on the wire as
\* expires_in when it is not 0.
TokenModelAccessTokenLifetime(data, time) ==
  IF data.accessTokenExpiresAt # 0 THEN data.accessTokenExpiresAt - time
  ELSE 0

\* TokenModel constructor (models/token.js): the error it throws on the
\* record `data` that Model.saveToken returned, or NULL.
TokenModelError(data) ==
  IF Falsy(data.accessToken) THEN "invalid_argument"
  ELSE IF ~data.hasClient THEN "invalid_argument"
  ELSE IF Falsy(data.user) THEN "invalid_argument"
  ELSE NULL

\* The option allowExtendedTokenAttributes as the grant hands it to
\* TokenModel: the authorization_code, client_credentials and password
\* grants read `this.allowExtendedTokenAttributes`; the refresh_token grant
\* reads `super.allowExtendedTokenAttributes`, a property the constructor
\* has set on the instance and not on the prototype, hence undefined.
GrantAllowExtendedTokenAttributes(grantType, allow) ==
  IF grantType = GRANT_RT THEN FALSE ELSE allow

\* Model.saveToken(client, user, token): the Model stores the record with
\* the client and the user it was given, and returns the stored record,
\* which carries attributes of the Model's own.
\* Then the grant validates it (TokenModel, which collects the attributes
\* when it is given allowExtendedTokenAttributes), builds the BearerToken
\* (which copies the attributes collected), and TokenHandler.execute
\* writes the success response.
GrantSaveToken(t) ==
  /\ task[t].pc = "saveToken"
  /\ task[t].ep = "token"
  /\ LET tk == Called(task[t], "saveToken", TRUE)
         data == tk.token
         e == TokenModelError(data)
     IN /\ tokens' = tokens \union {data}
        /\ observed' = IF tk.grantType = GRANT_AC
                       THEN [observed EXCEPT ![tk.cred].saveToken = @ + 1]
                       ELSE observed
        /\ \E hdr \in BOOLEAN, allow \in BOOLEAN :
             task' = [task EXCEPT ![t] =
                        IF e # NULL
                        THEN Throw(tk, e, hdr)
                        ELSE [tk EXCEPT
                                !.pc = "done", !.body = data,
                                !.allowExtendedTokenAttributes = allow,
                                !.customAttributes =
                                  GrantAllowExtendedTokenAttributes(
                                    tk.grantType, allow),
                                !.headers = TokenHeaders,
                                !.expires_in =
                                  TokenModelAccessTokenLifetime(data, now)]]
  /\ UNCHANGED <<call, options, now, ticks, codes, nextId, started, capValidateScope>>

\* ------------------------------------------------------------------------
\* authorization_code grant (grants/authorization-code)
\* ------------------------------------------------------------------------
\* Every authorization code issued so far.
IssuedCodes == DOMAIN observed

CodeInputs == {NULL, BADSTR, "nocode"} \union IssuedCodes
RedirectUriInputs == {NULL, NotUri, UriApp, UriOther}

\* AccessTokenRequest constructor of the authorization_code grant: the
\* error it throws, or NULL.
AuthorizationCodeRequestError(code, redirectUri) ==
  IF Falsy(code) THEN "invalid_request"
  ELSE IF ~vschar(code) THEN "invalid_request"
  ELSE IF ~uri(redirectUri) THEN "invalid_request"
  ELSE NULL

\* AuthorizationCodeGrant.execute up to the await of
\* Model.getAuthorizationCode (validateAuthorizationCode reads the clock
\* before it awaits).
AuthorizationCodeExecute(t) ==
  /\ GrantDispatched(t, GRANT_AC)
  /\ \E id \in AuthenticatedClients(GRANT_AC), code \in CodeInputs,
        redirectUri \in RedirectUriInputs, hdr \in BOOLEAN :
       LET tk == ClientAuthenticated(t, id)
           e == AuthorizationCodeRequestError(code, redirectUri)
       IN task' = [task EXCEPT ![t] =
                     IF e # NULL
                     THEN Throw(tk, e, hdr)
                     ELSE [tk EXCEPT !.pc = "getAuthorizationCode",
                                     !.cred = code, !.t0 = now,
                                     !.reqRedirectUri = redirectUri]]
  /\ UNCHANGED <<call, options, now, ticks, codes, tokens, nextId, started, capValidateScope,
                 observed>>

\* Model.getAuthorizationCode(code): the stored records with that code.
ModelGetAuthorizationCode(code) == {c \in codes : c.authorizationCode = code}

\* Fault: validateAuthorizationCode does not compare the code's client
\* with the authenticated client.
validateAuthorizationCodeErrorAnyClient(found, clientId, t0, redirectUri) ==
  IF found = {} THEN "invalid_grant"
  ELSE LET code == CHOOSE c \in found : TRUE
       IN IF ~code.hasClient THEN "server_error"
          ELSE IF Falsy(code.user) THEN "server_error"
          ELSE IF ~code.hasExpiresAt THEN "server_error"
          ELSE IF code.expiresAt < t0 THEN "invalid_grant"
          ELSE IF ~Falsy(code.redirectUri) /\ ~uri(code.redirectUri)
               THEN "invalid_grant"
          ELSE IF ~Falsy(code.redirectUri) /\ redirectUri # code.redirectUri
               THEN "invalid_request"
          ELSE NULL

\* Fault: validateAuthorizationCode does not compare the code's expiresAt
\* with the clock.
validateAuthorizationCodeErrorNoExpiry(found, clientId, t0, redirectUri) ==
  IF found = {} THEN "invalid_grant"
  ELSE LET code == CHOOSE c \in found : TRUE
       IN IF ~code.hasClient THEN "server_error"
          ELSE IF Falsy(code.user) THEN "server_error"
          ELSE IF code.client # clientId THEN "invalid_grant"
          ELSE IF ~code.hasExpiresAt THEN "server_error"
          ELSE IF ~Falsy(code.redirectUri) /\ ~uri(code.redirectUri)
               THEN "invalid_grant"
          ELSE IF ~Falsy(code.redirectUri) /\ redirectUri # code.redirectUri
               THEN "invalid_request"
          ELSE NULL

\* validateAuthorizationCode after Model.getAuthorizationCode has returned,
\* then validateRedirectUri: the error thrown, or NULL.
validateAuthorizationCodeError(found, clientId, t0, redirectUri) ==
  IF found = {} THEN "invalid_grant"
  ELSE LET code == CHOOSE c \in found : TRUE
       IN IF ~code.hasClient THEN "server_error"
          ELSE IF Falsy(code.user) THEN "server_error"
          ELSE IF code.client # clientId THEN "invalid_grant"
          ELSE IF ~code.hasExpiresAt THEN "server_error"
          ELSE IF code.expiresAt < t0 THEN "invalid_grant"
          ELSE IF ~Falsy(code.redirectUri) /\ ~uri(code.redirectUri)
               THEN "invalid_grant"
          ELSE IF ~Falsy(code.redirectUri) /\ redirectUri # code.redirectUri
               THEN "invalid_request"
          ELSE NULL

\* AuthorizationCodeGrant.execute from the return of
\* Model.getAuthorizationCode to the await of Model.revokeAuthorizationCode.
AuthorizationCodeValidate(t) ==
  /\ task[t].pc = "getAuthorizationCode"
  /\ \E hdr \in BOOLEAN :
       LET found == ModelGetAuthorizationCode(task[t].cred)
           tk == Called(task[t], "getAuthorizationCode", found # {})
           e == validateAuthorizationCodeError(found, tk.client, tk.t0,
                                               tk.reqRedirectUri)
       IN task' = [task EXCEPT ![t] =
                     IF e # NULL
                     THEN Throw(tk, e, hdr)
                     ELSE LET code == CHOOSE c \in found : TRUE
                          IN [tk EXCEPT !.pc = "revokeAuthorizationCode",
                                        !.credUser = code.user,
                                        !.credScope = code.scope]]
  /\ UNCHANGED <<call, options, now, ticks, codes, tokens, nextId, started, capValidateScope,
                 observed>>

\* Fault: deleteAuthorizationCode ignores the status that
\* Model.revokeAuthorizationCode returned.
deleteAuthorizationCodeThrowsNever(status) == FALSE

\* Fault: deleteAuthorizationCode tests the status the wrong way round.
deleteAuthorizationCodeThrowsOnTruthy(status) == status

\* AuthorizationCodeGrant.deleteAuthorizationCode: whether it throws
\* invalid_grant on the status Model.revokeAuthorizationCode returned.
deleteAuthorizationCodeThrows(status) == ~status

\* AuthorizationCodeGrant.createToken(client, code)
AuthorizationCodeCreateToken(tk, client, code) ==
  CreateTokenValidated(tk, client.id, code.user, code.scope, TRUE)

\* The call of createToken in AuthorizationCodeGrant.execute, which passes
\* the code where createToken takes the client and the client where it
\* takes the code.
AuthorizationCodeIssue(tk) ==
  AuthorizationCodeCreateToken(tk, CodeObject(tk), ClientObject(tk.client))

\* Model.revokeAuthorizationCode(code) deletes the code atomically and
\* returns whether it was still stored; then deleteAuthorizationCode and
\* createToken up to its first await.
AuthorizationCodeRevoke(t) ==
  /\ task[t].pc = "revokeAuthorizationCode"
  /\ LET status == ModelGetAuthorizationCode(task[t].cred) # {}
         tk == Called(task[t], "revokeAuthorizationCode", status)
     IN /\ codes' = codes \ ModelGetAuthorizationCode(tk.cred)
        /\ observed' = [observed EXCEPT
                          ![tk.cred].revoke = @ + 1,
                          ![tk.cred].truthy = IF status THEN @ + 1 ELSE @]
        /\ \E hdr \in BOOLEAN :
             LET new == IF deleteAuthorizationCodeThrows(status)
                        THEN Throw(tk, "invalid_grant", hdr)
                        ELSE AuthorizationCodeIssue(tk)
             IN /\ task' = [task EXCEPT ![t] = new]
                /\ nextId' = Consumed(new, 2)
  /\ UNCHANGED <<call, options, now, ticks, tokens, started, capValidateScope>>

\* ------------------------------------------------------------------------
\* refresh_token grant (grants/refresh-token)
\* ------------------------------------------------------------------------
\* Every refresh token stored now or handed out before.
RefreshInputs ==
  {NULL, BADSTR, "norefresh"}
    \union {k.refreshToken : k \in SeedTokens}
    \union {generateRandomToken(n) : n \in 0..(nextId - 1)}
\* The scope parameter of a request: absent, the empty string, a string
\* outside NQSCHAR, a scope.
ScopeInputs == {NULL, EMPTY, BADSTR, "read"}

\* AccessTokenRequest constructor of the refresh_token grant: the error it
\* throws, or NULL.
RefreshTokenRequestError(refreshToken, scope) ==
  IF Falsy(refreshToken) THEN "invalid_request"
  ELSE IF ~vschar(refreshToken) THEN "invalid_request"
  ELSE IF ~nqschar(scope) THEN "invalid_request"
  ELSE NULL

\* RefreshTokenGrant.execute up to the await of Model.getRefreshToken; the
\* grant is built per call with the option alwaysIssueNewRefreshToken.
\* (Here and in the other request constructors the task keeps the scope
\* parameter of a request that is rejected for its scope alone.)
RefreshTokenExecute(t) ==
  /\ GrantDispatched(t, GRANT_RT)
  /\ \E id \in AuthenticatedClients(GRANT_RT), refreshToken \in RefreshInputs,
        scope \in ScopeInputs, always \in BOOLEAN, hdr \in BOOLEAN :
       LET tk == [ClientAuthenticated(t, id)
                    EXCEPT !.alwaysIssueNewRefreshToken = always]
           e == RefreshTokenRequestError(refreshToken, scope)
           rejected == [tk EXCEPT !.reqScope =
                          IF RefreshTokenRequestError(refreshToken, NULL) = NULL
                          THEN scope ELSE NULL]
       IN task' = [task EXCEPT ![t] =
                     IF e # NULL
                     THEN Throw(rejected, e, hdr)
                     ELSE [tk EXCEPT !.pc = "getRefreshToken",
                                     !.cred = refreshToken,
                                     !.reqScope = scope]]
  /\ UNCHANGED <<call, options, now, ticks, codes, tokens, nextId, started, capValidateScope,
                 observed>>

\* Model.getRefreshToken(token): the stored records with that refresh token.
ModelGetRefreshToken(refreshToken) ==
  {k \in tokens : k.refreshToken = refreshToken}

\* Fault: validateRefreshToken does not compare refreshTokenExpiresAt with
\* the clock.
validateRefreshTokenErrorNoExpiry(found, clientId, time) ==
  IF found = {} THEN "invalid_grant"
  ELSE LET token == CHOOSE k \in found : TRUE
       IN IF ~token.hasClient THEN "server_error"
          ELSE IF Falsy(token.user) THEN "server_error"
          ELSE IF token.client # clientId THEN "invalid_grant"
          ELSE NULL

\* validateRefreshToken after Model.getRefreshToken has returned (it reads
\* the clock after the await): the error thrown, or NULL.
validateRefreshTokenError(found, clientId, time) ==
  IF found = {} THEN "invalid_grant"
  ELSE LET token == CHOOSE k \in found : TRUE
       IN IF ~token.hasClient THEN "server_error"
          ELSE IF Falsy(token.user) THEN "server_error"
          ELSE IF token.client # clientId THEN "invalid_grant"
          ELSE IF token.refreshTokenExpiresAt # 0
                  /\ token.refreshTokenExpiresAt < time THEN "invalid_grant"
          ELSE NULL

\* Fault: createToken prefers the scope parameter of the request to the
\* scope of the old token.
RefreshTokenCreateTokenRequestScope(tk, client, user, scope) ==
  BuildToken(tk, client, user,
             IF Falsy(tk.reqScope) THEN scope ELSE tk.reqScope,
             tk.alwaysIssueNewRefreshToken # FALSE)

\* Fault: createToken puts the new refresh token in the record whatever
\* alwaysIssueNewRefreshToken is.
RefreshTokenCreateTokenAlwaysRefresh(tk, client, user, scope) ==
  BuildToken(tk, client, user, scope, TRUE)

\* RefreshTokenGrant.createToken(client, user, scope) up to the await of
\* Model.saveToken: no scope validation; the refresh token is generated
\* and put in the record when alwaysIssueNewRefreshToken is not false.
RefreshTokenCreateToken(tk, client, user, scope) ==
  BuildToken(tk, client, user, scope, tk.alwaysIssueNewRefreshToken # FALSE)

\* RefreshTokenGrant.execute from the return of Model.getRefreshToken to
\* the next await: Model.revokeRefreshToken when alwaysIssueNewRefreshToken,
\* else Model.saveToken.
RefreshTokenValidate(t) ==
  /\ task[t].pc = "getRefreshToken"
  /\ \E hdr \in BOOLEAN :
       LET found == ModelGetRefreshToken(task[t].cred)
           tk == Called(task[t], "getRefreshToken", found # {})
           e == validateRefreshTokenError(found, tk.client, now)
           new == IF e # NULL THEN Throw(tk, e, hdr)
                  ELSE LET token == CHOOSE k \in found : TRUE
                           held == [tk EXCEPT !.credUser = token.user,
                                              !.credScope = token.scope]
                       IN IF ~tk.alwaysIssueNewRefreshToken
                          THEN RefreshTokenCreateToken(held, held.client,
                                 held.credUser, held.credScope)
                          ELSE [held EXCEPT !.pc = "revokeRefreshToken"]
       IN /\ task' = [task EXCEPT ![t] = new]
          /\ nextId' = Consumed(new, 2)
  /\ UNCHANGED <<call, options, now, ticks, codes, tokens, started, capValidateScope, observed>>

\* Fault: deleteRefreshToken ignores the status that
\* Model.revokeRefreshToken returned.
deleteRefreshTokenThrowsNever(status) == FALSE

\* RefreshTokenGrant.deleteRefreshToken: whether it throws invalid_grant on
\* the status Model.revokeRefreshToken returned.
deleteRefreshTokenThrows(status) == ~status

\* Model.revokeRefreshToken(token) deletes the token atomically and returns
\* whether it was still stored; then deleteRefreshToken and createToken up
\* to the await of Model.saveToken.
RefreshTokenRevoke(t) ==
  /\ task[t].pc = "revokeRefreshToken"
  /\ LET status == ModelGetRefreshToken(task[t].cred) # {}
         tk == Called(task[t], "revokeRefreshToken", status)
     IN /\ tokens' = tokens \ ModelGetRefreshToken(tk.cred)
        /\ \E hdr \in BOOLEAN :
             LET new == IF deleteRefreshTokenThrows(status)
                        THEN Throw(tk, "invalid_grant", hdr)
                        ELSE RefreshTokenCreateToken(tk, tk.client,
                               tk.credUser, tk.credScope)
             IN /\ task' = [task EXCEPT ![t] = new]
                /\ nextId' = Consumed(new, 2)
  /\ UNCHANGED <<call, options, now, ticks, codes, started, capValidateScope, observed>>

\* ------------------------------------------------------------------------
\* password grant (grants/password)
\* ------------------------------------------------------------------------
UsernameInputs == {NULL, "alice", "mallory"}
PasswordInputs == {NULL, UserPassword}

\* AccessTokenRequest constructor of the password grant: the error it
\* throws, or NULL.
PasswordRequestError(username, password, scope) ==
  IF Falsy(username) THEN "invalid_request"
  ELSE IF Falsy(password) THEN "invalid_request"
  ELSE IF ~uchar(username) THEN "invalid_request"
  ELSE IF ~uchar(password) THEN "invalid_request"
  ELSE IF ~nqschar(scope) THEN "invalid_request"
  ELSE NULL

\* PasswordGrant.execute up to the await of Model.getUser; the Model's
\* answer is fixed by the credentials, so the task keeps the answer.
PasswordExecute(t) ==
  /\ GrantDispatched(t, GRANT_PW)
  /\ \E id \in AuthenticatedClients(GRANT_PW), username \in UsernameInputs,
        password \in PasswordInputs, scope \in ScopeInputs, hdr \in BOOLEAN :
       LET tk == ClientAuthenticated(t, id)
           e == PasswordRequestError(username, password, scope)
           rejected == [tk EXCEPT !.reqScope =
                          IF PasswordRequestError(username, password, NULL) = NULL
                          THEN scope ELSE NULL]
       IN task' = [task EXCEPT ![t] =
                     IF e # NULL
                     THEN Throw(rejected, e, hdr)
                     ELSE [tk EXCEPT !.pc = "getUser",
                                     !.user = ModelGetUser(username, password),
                                     !.reqScope = scope]]
  /\ UNCHANGED <<call, options, now, ticks, codes, tokens, nextId, started, capValidateScope,
                 observed>>

\* PasswordGrant.validateUser after Model.getUser has returned, then
\* createToken up to its first await.
PasswordValidateUser(t) ==
  /\ task[t].pc = "getUser"
  /\ \E hdr \in BOOLEAN :
       LET tk == Called(task[t], "getUser", ~Falsy(task[t].user))
           new == IF Falsy(tk.user) THEN Throw(tk, "invalid_grant", hdr)
                  ELSE CreateTokenValidated(tk, tk.client, tk.user,
                                            tk.reqScope, TRUE)
       IN /\ task' = [task EXCEPT ![t] = new]
          /\ nextId' = Consumed(new, 2)
  /\ UNCHANGED <<call, options, now, ticks, codes, tokens, started, capValidateScope, observed>>

\* ------------------------------------------------------------------------
\* client_credentials grant (grants/client-credentials)
\* ------------------------------------------------------------------------
\* ClientCredentialGrant.execute up to the await of
\* Model.getUserFromClient: the AccessTokenRequest constructor throws
\* InvalidArgumentError on a bad scope, and validateUser reads
\* client.user.username before it calls the Model.
ClientCredentialsExecute(t) ==
  /\ GrantDispatched(t, GRANT_CC)
  /\ \E id \in AuthenticatedClients(GRANT_CC), scope \in ScopeInputs,
        hdr \in BOOLEAN :
       LET tk == ClientAuthenticated(t, id)
       IN task' = [task EXCEPT ![t] =
                     IF ~nqschar(scope)
                     THEN Throw([tk EXCEPT !.reqScope = scope],
                                "invalid_argument", hdr)
                     ELSE IF ClientRecord(tk.client).user = NULL
                     THEN Throw(tk, TypeError, hdr)
                     ELSE [tk EXCEPT !.pc = "getUserFromClient",
                                     !.reqScope = scope]]
  /\ UNCHANGED <<call, options, now, ticks, codes, tokens, nextId, started, capValidateScope,
                 observed>>

\* ClientCredentialGrant.validateUser after Model.getUserFromClient has
\* returned (the user tied to the client, or a falsy value when the Model
\* no longer knows the user), then createToken (no refresh token) up to
\* its first await.
ClientCredentialsValidateUser(t) ==
  /\ task[t].pc = "getUserFromClient"
  /\ \E hdr \in BOOLEAN, user \in {ModelGetUserFromClient(task[t].client), NULL} :
       LET tk == Called(task[t], "getUserFromClient", ~Falsy(user))
           new == IF Falsy(user) THEN Throw(tk, "invalid_grant", hdr)
                  ELSE CreateTokenValidated([tk EXCEPT !.user = user],
                         tk.client, user, tk.reqScope, FALSE)
       IN /\ task' = [task EXCEPT ![t] = new]
          /\ nextId' = Consumed(new, 1)
  /\ UNCHANGED <<call, options, now, ticks, codes, tokens, started, capValidateScope, observed>>

\* ------------------------------------------------------------------------
\* Bearer Authenticate endpoint (handlers/authenticate)
\* ------------------------------------------------------------------------
\* How a request presents its bearer token: the Authorization header is
\* absent, well formed ("Bearer <token>") or malformed; the query and the
\* body carry an access_token parameter or not.
HeaderKinds == {"absent", "bearer", "malformed"}

\* Fault: the constructor does not count the places the token is
\* presented in.
AuthenticateRequestErrorAnyCount(header, inQuery, inBody, shape, allowBearerTokensInQueryString) ==
  IF header = "absent" /\ ~inQuery /\ ~inBody THEN "unauthorized_request"
  ELSE IF header = "malformed" THEN "invalid_request"
  ELSE IF inQuery /\ ~allowBearerTokensInQueryString THEN "invalid_request"
  ELSE IF inBody /\ shape = "get" THEN "invalid_request"
  ELSE IF inBody /\ shape # "form-post" THEN "invalid_request"
  ELSE NULL

\* AuthenticateRequest constructor: the error it throws, or NULL.
AuthenticateRequestError(header, inQuery, inBody, shape, allowBearerTokensInQueryString) ==
  LET headerToken == header # "absent"
      sources == (IF headerToken THEN 1 ELSE 0) + (IF inQuery THEN 1 ELSE 0)
                 + (IF inBody THEN 1 ELSE 0)
  IN IF sources = 0 THEN "unauthorized_request"
     ELSE IF sources > 1 THEN "invalid_request"
     ELSE IF headerToken /\ header = "malformed" THEN "invalid_request"
     ELSE IF inQuery /\ ~allowBearerTokensInQueryString THEN "invalid_request"
     ELSE IF inBody /\ shape = "get" THEN "invalid_request"
     ELSE IF inBody /\ shape # "form-post" THEN "invalid_request"
     ELSE NULL

\* Every access token stored now, or unknown to the Model.
AccessTokenInputs ==
  {"notoken"} \union ({k.accessToken : k \in tokens} \ {NULL})

\* AuthenticateHandler.execute up to the await of Model.getAccessToken
\* (validateAccessToken reads the clock before it awaits); `tk` is the
\* task that runs it, the Authenticate endpoint's or the Authorize
\* endpoint's.
AuthenticateBegin(tk, header, inQuery, inBody, shape, allowQuery, token) ==
  LET e == AuthenticateRequestError(header, inQuery, inBody, shape, allowQuery)
      req == [tk EXCEPT !.pc = "getAccessToken", !.header = header,
                        !.inQuery = inQuery, !.inBody = inBody]
  IN IF e # NULL
     THEN Throw(req, e, FALSE)
     ELSE [req EXCEPT !.cred = token, !.t0 = now]

\* AuthenticateHandler.execute, called on the Authenticate endpoint with
\* the per-call options `scope` and allowBearerTokensInQueryString.
AuthenticateExecute(t) ==
  /\ task[t].pc = "idle"
  /\ started < MaxRequests
  /\ started' = started + 1
  /\ \E header \in HeaderKinds, inQuery \in BOOLEAN, inBody \in BOOLEAN,
        shape \in RequestShapes, allowQuery \in BOOLEAN,
        scope \in {NULL, "read"}, token \in AccessTokenInputs :
       task' = [task EXCEPT ![t] =
                  AuthenticateBegin(
                    [IdleTask EXCEPT !.ep = "authenticate", !.scope = scope],
                    header, inQuery, inBody, shape, allowQuery, token)]
  /\ UNCHANGED <<call, options, now, ticks, codes, tokens, nextId, capValidateScope, observed>>

\* Model.getAccessToken(token): the stored records with that access token.
ModelGetAccessToken(accessToken) ==
  {k \in tokens : k.accessToken = accessToken}

\* Fault: validateAccessToken does not compare accessTokenExpiresAt with
\* the clock.
validateAccessTokenErrorNoExpiry(found, t0) ==
  IF found = {} THEN "invalid_token"
  ELSE LET accessToken == CHOOSE k \in found : TRUE
       IN IF Falsy(accessToken.user) THEN "server_error"
          ELSE IF accessToken.accessTokenExpiresAt = 0 THEN "server_error"
          ELSE NULL

\* validateAccessToken after Model.getAccessToken has returned: the error
\* thrown, or NULL.
validateAccessTokenError(found, t0) ==
  IF found = {} THEN "invalid_token"
  ELSE LET accessToken == CHOOSE k \in found : TRUE
       IN IF Falsy(accessToken.user) THEN "server_error"
          ELSE IF accessToken.accessTokenExpiresAt = 0 THEN "server_error"
          ELSE IF accessToken.accessTokenExpiresAt < t0 THEN "invalid_token"
          ELSE NULL

\* The resource owner is authenticated: AuthenticateHandler.execute returns
\* accessToken.user; the Authorize endpoint goes on to validateClient and
\* awaits Model.getClient(clientId).
ResourceOwnerAuthenticated(tk, user) ==
  IF tk.ep = "authenticate"
  THEN [tk EXCEPT !.pc = "done", !.returned = user]
  ELSE [tk EXCEPT !.pc = "getClient", !.user = user]

\* AuthenticateHandler.execute from the return of Model.getAccessToken to
\* the await of Model.verifyScope (when a scope is required) or to its end.
AuthenticateValidate(t) ==
  /\ task[t].pc = "getAccessToken"
  /\ LET found == ModelGetAccessToken(task[t].cred)
         tk == Called(task[t], "getAccessToken", found # {})
         e == validateAccessTokenError(found, tk.t0)
     IN task' = [task EXCEPT ![t] =
                   IF e # NULL THEN Throw(tk, e, FALSE)
                   ELSE LET accessToken == CHOOSE k \in found : TRUE
                            held == [tk EXCEPT !.credUser = accessToken.user,
                                               !.credScope = accessToken.scope]
                        IN IF ~Falsy(tk.scope)
                           THEN [held EXCEPT !.pc = "verifyScope"]
                           ELSE ResourceOwnerAuthenticated(held, held.credUser)]
  /\ UNCHANGED <<call, options, now, ticks, codes, tokens, nextId, started, capValidateScope,
                 observed>>

\* verifyAccessTokenScope after Model.verifyScope has returned, then the
\* success response and the return of the user.
AuthenticateVerifyScope(t) ==
  /\ task[t].pc = "verifyScope"
  /\ LET ok == ModelVerifyScope(task[t].credScope, task[t].scope)
         tk == Called(task[t], "verifyScope", ok)
     IN task' = [task EXCEPT ![t] =
                   IF ~ok THEN Throw(tk, "insufficient_scope", FALSE)
                   ELSE ResourceOwnerAuthenticated(tk, tk.credUser)]
  /\ UNCHANGED <<call, options, now, ticks, codes, tokens, nextId, started, capValidateScope,
                 observed>>

\* ------------------------------------------------------------------------
\* Authorize endpoint (handlers/auhtorize)
\* ------------------------------------------------------------------------
\* AuthorizationRequest constructor on the request parameters `q` (each
\* read from the body, else from the query): the error it throws, or NULL.
AuthorizationRequestError(q, allowEmptyState) ==
  IF q.allowed = "false" THEN "access_denied"
  ELSE IF Falsy(q.response_type) THEN "invalid_request"
  ELSE IF q.response_type \notin {"code", "token"}
       THEN "unsupported_response_type"
  ELSE IF Falsy(q.redirect_uri) THEN "invalid_request"
  ELSE IF ~uri(q.redirect_uri) THEN "invalid_request"
  ELSE IF Falsy(q.client_id) THEN "invalid_request"
  ELSE IF ~vschar(q.client_id) THEN "invalid_request"
  ELSE IF ~nqschar(q.scope) THEN "invalid_scope"
  ELSE IF ~allowEmptyState /\ Falsy(q.state) THEN "invalid_request"
  ELSE IF ~vschar(q.state) THEN "invalid_request"
  ELSE NULL

ResponseTypeInputs == {NULL, "code", "token", "id_token"}
StateInputs == {NULL, "xyz", BADSTR}
AuthorizeClientInputs == {NULL, "c1", "c2", "c3", "cX"}

\* The Authorize requests of the model.  The constructor reads the
\* parameters in a fixed order and stops at the first that fails, so the
\* parameters it does not reach are left at a passing value (redirect_uri
\* excepted, which the catch of execute reads too).
PassingQuery ==
  [allowed |-> NULL, response_type |-> "code", redirect_uri |-> UriApp,
   client_id |-> "c1", scope |-> NULL, state |-> "xyz"]

AuthorizeQueries ==
  LET first == {[PassingQuery EXCEPT !.allowed = a, !.response_type = r,
                                     !.redirect_uri = u] :
                  a \in {NULL, "false"}, r \in ResponseTypeInputs,
                  u \in RedirectUriInputs}
      firstOk == {q \in first : AuthorizationRequestError(q, FALSE) = NULL}
      second == {[q EXCEPT !.client_id = c, !.scope = s] :
                   q \in firstOk, c \in AuthorizeClientInputs,
                   s \in ScopeInputs}
      secondOk == {q \in second : AuthorizationRequestError(q, FALSE) = NULL}
      third == {[q EXCEPT !.state = st] : q \in secondOk, st \in StateInputs}
  IN first \union second \union third

\* How the resource owner is authenticated: by the host's handler, or by
\* the bearer AuthenticateHandler on a request whose Authorization header
\* is absent, well formed or malformed.
AuthenticationInputs == {"host"} \union HeaderKinds

\* AuthorizeHandler.execute up to its first await: the request is parsed,
\* then authenticateResourceOwner calls the authenticate handler, the
\* host's own or the bearer AuthenticateHandler built from the options
\* (with the required `scope`, if one is configured), here on a request
\* that presents its token in the Authorization header.
AuthorizeExecute(t) ==
  /\ task[t].pc = "idle"
  /\ started < MaxRequests
  /\ started' = started + 1
  /\ \E q \in AuthorizeQueries, allowEmptyState \in BOOLEAN :
       LET tk == [IdleTask EXCEPT !.ep = "authorize",
                                  !.reqRedirectUri = q.redirect_uri]
           e == AuthorizationRequestError(q, allowEmptyState)
           parsed == [tk EXCEPT !.responseType = q.response_type,
                                !.reqState = q.state,
                                !.calls = Append(@, [op |-> "parsed",
                                                     ok |-> TRUE])]
           rejected == [tk EXCEPT !.reqScope =
                          IF AuthorizationRequestError(
                               [q EXCEPT !.scope = NULL], allowEmptyState) = NULL
                          THEN q.scope ELSE NULL]
       IN IF e # NULL
          THEN task' = [task EXCEPT ![t] = Throw(rejected, e, FALSE)]
          ELSE \E authn \in AuthenticationInputs, token \in AccessTokenInputs,
                  scope \in {NULL, "read"} :
                 task' = [task EXCEPT ![t] =
                   IF authn = "host"
                   THEN [parsed EXCEPT !.pc = "authenticateHandler",
                                       !.handler = "host"]
                   ELSE AuthenticateBegin(
                          [parsed EXCEPT !.handler = "bearer",
                                         !.scope = scope],
                          authn, FALSE, FALSE, "get", FALSE, token)]
  /\ UNCHANGED <<call, options, now, ticks, codes, tokens, nextId, capValidateScope, observed>>

\* authenticateResourceOwner after the host's authenticate handler has
\* returned: a user, or a falsy value.
AuthorizeHostAuthenticated(t) ==
  /\ task[t].pc = "authenticateHandler"
  /\ \E user \in {NULL, "alice"} :
       LET tk == Called(task[t], "authenticateHandler", ~Falsy(user))
       IN task' = [task EXCEPT ![t] =
                     IF Falsy(user) THEN Throw(tk, "server_error", FALSE)
                     ELSE ResourceOwnerAuthenticated(tk, user)]
  /\ UNCHANGED <<call, options, now, ticks, codes, tokens, nextId, started, capValidateScope,
                 observed>>

\* Fault: validateClient does not look the request's redirect_uri up among
\* the client's redirectUris.
validateClientErrorAnyRedirect(found, responseType, redirectUri) ==
  IF found = {} THEN "invalid_client"
  ELSE LET client == CHOOSE c \in found : TRUE
       IN IF ~client.hasGrants THEN "invalid_client"
          ELSE IF responseType = "code" /\ GRANT_AC \notin client.grants
               THEN "unauthorized_client"
          ELSE IF responseType = "token" /\ "implicit" \notin client.grants
               THEN "unauthorized_client"
          ELSE IF client.redirectUris = {} THEN "invalid_client"
          ELSE NULL

\* AuthorizeHandler.validateClient after Model.getClient has returned: the
\* error thrown, or NULL.
validateClientError(found, responseType, redirectUri) ==
  IF found = {} THEN "invalid_client"
  ELSE LET client == CHOOSE c \in found : TRUE
       IN IF ~client.hasGrants THEN "invalid_client"
          ELSE IF responseType = "code" /\ GRANT_AC \notin client.grants
               THEN "unauthorized_client"
          ELSE IF responseType = "token" /\ "implicit" \notin client.grants
               THEN "unauthorized_client"
          ELSE IF client.redirectUris = {} THEN "invalid_client"
          ELSE IF ~Falsy(redirectUri) /\ redirectUri \notin client.redirectUris
               THEN "invalid_client"
          ELSE NULL

\* CodeResponse.buildRedirectUri(code, scope, uri, state): the URI is
\* parsed with its query string, `search` is cleared, and code, scope (if
\* any) and state (if any) are added to the query object.
CodeResponseBuildRedirectUri(code, scope, value, state) ==
  LET redirectUri == [UrlParse(value, TRUE) EXCEPT !.search = <<>>]
  IN [redirectUri EXCEPT
        !.query = @ \o <<[k |-> "code", v |-> code]>>
                    \o (IF ~Falsy(scope) THEN <<[k |-> "scope", v |-> scope]>>
                        ELSE <<>>)
                    \o (IF ~Falsy(state) THEN <<[k |-> "state", v |-> state]>>
                        ELSE <<>>)]

\* TokenResponse.buildRedirectUri(token, uri, state): the URI is parsed
\* without its query string, and access_token, expires_in and state (if
\* any) are appended to the fragment.
TokenResponseBuildRedirectUri(access_token, value, state) ==
  LET redirectUri == UrlParse(value, FALSE)
  IN [redirectUri EXCEPT
        !.hash = @ \o <<[k |-> "access_token", v |-> access_token],
                        [k |-> "expires_in",
                         v |-> ToString(AccessTokenLifetime)]>>
                   \o (IF ~Falsy(state) THEN <<[k |-> "state", v |-> state]>>
                       ELSE <<>>)]

\* CodeResponse.execute up to the await of Model.saveAuthorizationCode:
\* the code is generated, expiresAt is now plus the lifetime.
CodeResponseExecute(tk, client, user, scope, redirectUri) ==
  [tk EXCEPT !.pc = "saveAuthorizationCode",
             !.code = [authorizationCode |-> generateRandomToken(nextId),
                       client |-> client, hasClient |-> TRUE,
                       user |-> user, scope |-> scope,
                       redirectUri |-> redirectUri,
                       expiresAt |-> now + AuthorizationCodeLifetime,
                       hasExpiresAt |-> TRUE]]

\* TokenResponse.execute of the Authorize endpoint up to the await of
\* Model.saveToken: the ImplicitGrant constructor requires a user and a
\* scope; createAccessToken builds {accessToken, accessTokenExpiresAt,
\* scope}.
ImplicitGrantExecute(tk, client, user, scope) ==
  IF Falsy(user) THEN Throw(tk, "invalid_argument", FALSE)
  ELSE IF Falsy(scope) THEN Throw(tk, "invalid_argument", FALSE)
  ELSE [tk EXCEPT !.pc = "saveToken",
                  !.token = [NoToken EXCEPT
                               !.client = client, !.hasClient = TRUE,
                               !.user = user, !.scope = scope,
                               !.accessToken = generateRandomToken(nextId),
                               !.accessTokenExpiresAt =
                                 now + ProcessGrantOptions(tk.client)
                                         .accessTokenLifetime]]

\* AuthorizeHandler.execute once the scope is validated: the response type
\* is dispatched.
AuthorizeRespond(tk, validScope) ==
  IF tk.responseType = "code"
  THEN CodeResponseExecute(tk, tk.client, tk.user, validScope,
                           tk.reqRedirectUri)
  ELSE ImplicitGrantExecute(tk, tk.client, tk.user, validScope)

\* The generator values a step of the Authorize endpoint has consumed.
AuthorizeConsumed(new) ==
  IF new.pc \in {"saveAuthorizationCode", "saveToken"}
  THEN nextId + 1 ELSE nextId

\* The client_id and scope parameters of the requests that
\* AuthorizationRequest accepts.
ParsedClientIds ==
  {q.client_id : q \in {x \in AuthorizeQueries :
                          AuthorizationRequestError(x, TRUE) = NULL}}

ParsedScopes ==
  {q.scope : q \in {x \in AuthorizeQueries :
                      AuthorizationRequestError(x, TRUE) = NULL}}

\* AuthorizeHandler.execute from the return of Model.getClient(clientId) to
\* the next await: validateClient, then validateScope, which awaits
\* Model.validateScope when the Model implements it.
AuthorizeValidateClient(t) ==
  /\ task[t].pc = "getClient"
  /\ task[t].ep = "authorize"
  /\ \E clientId \in ParsedClientIds, scope \in ParsedScopes :
       LET found == ModelGetClient(clientId, NULL)
           tk == [Called(task[t], "getClient", found # {})
                    EXCEPT !.clientId = clientId]
           e == validateClientError(found, tk.responseType, tk.reqRedirectUri)
           held == [tk EXCEPT !.client = clientId, !.reqScope = scope]
           new == IF e # NULL THEN Throw(tk, e, FALSE)
                  ELSE IF capValidateScope
                  THEN [held EXCEPT !.pc = "validateScope"]
                  ELSE AuthorizeRespond(held, scope)
       IN /\ task' = [task EXCEPT ![t] = new]
          /\ nextId' = AuthorizeConsumed(new)
  /\ UNCHANGED <<call, options, now, ticks, codes, tokens, started, capValidateScope, observed>>

\* AuthorizeHandler.validateScope after Model.validateScope has returned,
\* then the response type up to its await.
AuthorizeValidateScope(t) ==
  /\ task[t].pc = "validateScope"
  /\ task[t].ep = "authorize"
  /\ LET validScope == ModelValidateScope(task[t].reqScope)
         tk == Called(task[t], "validateScope", ~Falsy(validScope))
         new == IF Falsy(validScope) THEN Throw(tk, "invalid_scope", FALSE)
                ELSE AuthorizeRespond(tk, validScope)
     IN /\ task' = [task EXCEPT ![t] = new]
        /\ nextId' = AuthorizeConsumed(new)
  /\ UNCHANGED <<call, options, now, ticks, codes, tokens, started, capValidateScope, observed>>

\* Model.saveAuthorizationCode(client, user, code) stores the record and
\* returns it; then the redirect URI is built and the success response
\* (Location, 302) is written.
AuthorizeSaveAuthorizationCode(t) ==
  /\ task[t].pc = "saveAuthorizationCode"
  /\ LET tk == Called(task[t], "saveAuthorizationCode", TRUE)
     IN /\ codes' = codes \union {tk.code}
        /\ observed' = [c \in DOMAIN observed \union {tk.code.authorizationCode}
                          |-> IF c \in DOMAIN observed THEN observed[c]
                              ELSE NoneObserved]
        /\ task' = [task EXCEPT ![t] =
                      [tk EXCEPT !.pc = "done", !.status = 302,
                                 !.location =
                                   UrlFormat(CodeResponseBuildRedirectUri(
                                     tk.code.authorizationCode, tk.code.scope,
                                     tk.reqRedirectUri, tk.reqState))]]
  /\ UNCHANGED <<call, options, now, ticks, tokens, nextId, started, capValidateScope>>

\* What Model.saveToken stores and returns when ImplicitGrant calls it as
\* saveToken(token, client, user): the Model takes its first argument for
\* the client, the second for the user and the third for the token record,
\* and the user carries no accessToken.
ImplicitSaved(token) ==
  [NoToken EXCEPT !.hasClient = TRUE, !.client = NULL, !.user = token.client]

\* Model.saveToken as the implicit grant calls it; then TokenModel,
\* BearerToken, the fragment redirect and the success response.  The
\* Model is the host's: it reads its arguments by position, or it is
\* written for this call and stores the token record with the client and
\* the user.
AuthorizeSaveToken(t) ==
  /\ task[t].pc = "saveToken"
  /\ task[t].ep = "authorize"
  /\ \E data \in {ImplicitSaved(task[t].token), task[t].token} :
       LET tk == Called(task[t], "saveToken", TRUE)
           e == TokenModelError(data)
       IN /\ tokens' = tokens \union {data}
          /\ task' = [task EXCEPT ![t] =
                        IF e # NULL THEN Throw(tk, e, FALSE)
                        ELSE [tk EXCEPT !.pc = "done", !.status = 302,
                                        !.body = data,
                                        !.location =
                                          UrlFormat(TokenResponseBuildRedirectUri(
                                            data.accessToken, tk.reqRedirectUri,
                                            tk.reqState))]]
  /\ UNCHANGED <<call, options, now, ticks, codes, nextId, started, capValidateScope, observed>>

\* ------------------------------------------------------------------------
\* Introspect endpoint (handlers/introspect)
\* ------------------------------------------------------------------------
\* IntrospectRequest constructor: the error it throws, or NULL.
IntrospectRequestError(shape, clientId, clientSecret, token, tokenHint, isClientSecretRequired) ==
  IF shape = "get" THEN "invalid_request"
  ELSE IF shape # "form-post" THEN "invalid_request"
  ELSE IF Falsy(clientId) THEN "invalid_request"
  ELSE IF ~vschar(clientId) THEN "invalid_request"
  ELSE IF isClientSecretRequired /\ Falsy(clientSecret) THEN "invalid_request"
  ELSE IF ~Falsy(clientSecret) /\ ~vschar(clientSecret) THEN "invalid_request"
  ELSE IF Falsy(tokenHint) /\ Falsy(token) THEN "invalid_request"
  ELSE IF Falsy(token) THEN "invalid_request"
  ELSE IF Falsy(tokenHint) THEN "invalid_request"
  ELSE IF tokenHint \notin {"access_token", "refresh_token"}
       THEN "invalid_request"
  ELSE NULL

TokenHintInputs == {NULL, "access_token", "refresh_token", "id_token"}

\* The Introspect (and Revoke) requests of the model.  The constructor
\* checks the method and the content type, then the client credentials,
\* then token and token_hint, and stops at the first that fails; the
\* parameters it does not reach are left at a passing value.
IntrospectRequests ==
  LET first == {[shape |-> sh, client_id |-> cid, client_secret |-> sec,
                 token |-> "notoken", token_hint |-> "access_token"] :
                  sh \in RequestShapes, cid \in {NULL, BADSTR, "c1"},
                  sec \in {NULL, BADSTR, ClientSecret}}
      second == {[shape |-> "form-post", client_id |-> "c1",
                  client_secret |-> ClientSecret,
                  token |-> tok, token_hint |-> hint] :
                   tok \in {NULL, "notoken"}, hint \in TokenHintInputs}
  IN first \union second

\* The client credentials of the requests that IntrospectRequest accepts
\* (a request without client_secret passes when isClientSecretRequired is
\* false).
IntrospectCredentials ==
  {cs \in ClientIdInputs \X ClientSecretInputs :
     IntrospectRequestError("form-post", cs[1], cs[2], "notoken",
                            "access_token", FALSE) = NULL}

\* The token parameter of an accepted request with the hint given: a
\* string the Model does not know, or a token it has stored.
HintedTokenInputs(tokenHint) ==
  {"notoken"} \union
  ({IF tokenHint = "access_token" THEN k.accessToken ELSE k.refreshToken :
      k \in tokens} \ {NULL})

\* Model.getAccessToken or Model.getRefreshToken, as token_hint says.
ModelGetTokenByHint(tokenHint, token) ==
  IF tokenHint = "access_token"
  THEN ModelGetAccessToken(token)
  ELSE ModelGetRefreshToken(token)

\* The name of the Model call that loads the token.
GetTokenCall(tokenHint) ==
  IF tokenHint = "access_token" THEN "getAccessToken" ELSE "getRefreshToken"

\* IntrospectHandler.execute up to the await of Model.getClient.
IntrospectExecute(t) ==
  /\ task[t].pc = "idle"
  /\ started < MaxRequests
  /\ started' = started + 1
  /\ \E r \in IntrospectRequests, isClientSecretRequired \in BOOLEAN,
        hdr \in BOOLEAN :
       LET tk == [IdleTask EXCEPT !.ep = "introspect", !.shape = r.shape]
           e == IntrospectRequestError(r.shape, r.client_id, r.client_secret,
                                       r.token, r.token_hint,
                                       isClientSecretRequired)
       IN task' = [task EXCEPT ![t] =
                     IF e # NULL
                     THEN Throw([tk EXCEPT !.tokenHint = r.token_hint,
                                           !.cred = r.token], e, hdr)
                     ELSE [tk EXCEPT !.pc = "getClient"]]
  /\ UNCHANGED <<call, options, now, ticks, codes, tokens, nextId, capValidateScope, observed>>

\* authenticateClient of IntrospectHandler (and of RevokeHandler) after
\* Model.getClient has returned, then verifyToken up to the await of
\* Model.getAccessToken or Model.getRefreshToken.
ManageAuthenticateClient(tk, cs, tokenHint, token, isAuthorizationHeader) ==
  LET found == ModelGetClient(cs[1], cs[2])
      called == [Called(tk, "getClient", found # {}) EXCEPT !.clientId = cs[1]]
  IN IF found = {}
     THEN Throw(called, "invalid_client", isAuthorizationHeader)
     ELSE [called EXCEPT !.pc = "getToken", !.client = cs[1],
                         !.tokenHint = tokenHint, !.cred = token]

IntrospectAuthenticateClient(t) ==
  /\ task[t].pc = "getClient"
  /\ task[t].ep = "introspect"
  /\ \E cs \in IntrospectCredentials,
        tokenHint \in {"access_token", "refresh_token"}, hdr \in BOOLEAN :
       \E token \in HintedTokenInputs(tokenHint) :
         task' = [task EXCEPT ![t] =
                    ManageAuthenticateClient(task[t], cs, tokenHint, token, hdr)]
  /\ UNCHANGED <<call, options, now, ticks, codes, tokens, nextId, started, capValidateScope,
                 observed>>

\* verifyToken of IntrospectHandler (and of RevokeHandler) on the records
\* the Model returned: reading token.client.id throws a TypeError when the
\* record has no client.
verifyTokenThrows(found) ==
  found # {} /\ ~(CHOOSE k \in found : TRUE).hasClient

\* Fault: verifyToken takes every token the Model finds for verified.
verifyTokenAnyClient(found, clientId) ==
  found # {} /\ (CHOOSE k \in found : TRUE).hasClient

\* verifyToken: whether the token is verified (found, and issued to the
\* authenticated client).
verifyToken(found, clientId) ==
  /\ found # {}
  /\ (CHOOSE k \in found : TRUE).hasClient
  /\ (CHOOSE k \in found : TRUE).client = clientId

\* The expiry date that token_hint names.
HintedExpiresAt(tokenHint, token) ==
  IF tokenHint = "access_token" THEN token.accessTokenExpiresAt
  ELSE token.refreshTokenExpiresAt

\* composeIntrospectResult on a verified token at time `time`: it throws
\* a TypeError when the expiry date the hint names is undefined
\* (expiresAt.getTime()), or when the token is not expired and has no
\* user (token.user.username).
composeIntrospectResultThrows(tokenHint, token, time) ==
  LET expiresAt == HintedExpiresAt(tokenHint, token)
  IN expiresAt = 0 \/ (~(time > expiresAt) /\ Falsy(token.user))

\* composeIntrospectResult(introspectRequest, token) for a verified token
\* at time `time`, when it does not throw.
composeIntrospectResult(tokenHint, token, time) ==
  LET expiresAt == HintedExpiresAt(tokenHint, token)
  IN IF time > expiresAt THEN Inactive
     ELSE [set |-> TRUE, active |-> TRUE, client_id |-> token.client,
           username |-> token.user, scope |-> token.scope,
           expires_at |-> expiresAt]

\* IntrospectHandler.execute from the return of the token lookup to its
\* end: verifyToken, composeIntrospectResult (which reads the clock) and
\* the success response.
IntrospectVerifyToken(t) ==
  /\ task[t].pc = "getToken"
  /\ task[t].ep = "introspect"
  /\ \E hdr \in BOOLEAN :
       LET found == ModelGetTokenByHint(task[t].tokenHint, task[t].cred)
           tk == [Called(task[t], GetTokenCall(task[t].tokenHint), found # {})
                    EXCEPT !.t0 = now]
           verified == verifyToken(found, tk.client)
           token == CHOOSE k \in found : TRUE
       IN task' = [task EXCEPT ![t] =
                     IF verifyTokenThrows(found)
                     THEN Throw(tk, TypeError, hdr)
                     ELSE IF ~verified
                     THEN [tk EXCEPT !.pc = "done", !.result = Inactive]
                     ELSE IF composeIntrospectResultThrows(tk.tokenHint,
                                                           token, now)
                     THEN Throw(tk, TypeError, hdr)
                     ELSE [tk EXCEPT !.pc = "done",
                                     !.result = composeIntrospectResult(
                                                  tk.tokenHint, token, now)]]
  /\ UNCHANGED <<call, options, now, ticks, codes, tokens, nextId, started, capValidateScope,
                 observed>>

\* ------------------------------------------------------------------------
\* Revoke endpoint (handlers/revoke)
\* ------------------------------------------------------------------------
\* RevokeRequest constructor: the parsing rules of IntrospectRequest.
RevokeRequestError(shape, clientId, clientSecret, token, tokenHint, isClientSecretRequired) ==
  IntrospectRequestError(shape, clientId, clientSecret, token, tokenHint,
                         isClientSecretRequired)

\* RevokeHandler.execute up to the await of Model.getClient.
RevokeExecute(t) ==
  /\ task[t].pc = "idle"
  /\ started < MaxRequests
  /\ started' = started + 1
  /\ \E r \in IntrospectRequests, isClientSecretRequired \in BOOLEAN,
        hdr \in BOOLEAN :
       LET tk == [IdleTask EXCEPT !.ep = "revoke", !.shape = r.shape]
           e == RevokeRequestError(r.shape, r.client_id, r.client_secret,
                                   r.token, r.token_hint,
                                   isClientSecretRequired)
       IN task' = [task EXCEPT ![t] =
                     IF e # NULL
                     THEN Throw([tk EXCEPT !.tokenHint = r.token_hint,
                                           !.cred = r.token], e, hdr)
                     ELSE [tk EXCEPT !.pc = "getClient"]]
  /\ UNCHANGED <<call, options, now, ticks, codes, tokens, nextId, capValidateScope, observed>>

RevokeAuthenticateClient(t) ==
  /\ task[t].pc = "getClient"
  /\ task[t].ep = "revoke"
  /\ \E cs \in IntrospectCredentials,
        tokenHint \in {"access_token", "refresh_token"}, hdr \in BOOLEAN :
       \E token \in HintedTokenInputs(tokenHint) :
         task' = [task EXCEPT ![t] =
                    ManageAuthenticateClient(task[t], cs, tokenHint, token, hdr)]
  /\ UNCHANGED <<call, options, now, ticks, codes, tokens, nextId, started, capValidateScope,
                 observed>>

\* RevokeHandler.execute from the return of the token lookup to the await
\* of the revoke call, or to its end (the success response: status 200,
\* no error) when the token is not verified.
RevokeVerifyToken(t) ==
  /\ task[t].pc = "getToken"
  /\ task[t].ep = "revoke"
  /\ \E hdr \in BOOLEAN :
       LET found == ModelGetTokenByHint(task[t].tokenHint, task[t].cred)
           tk == Called(task[t], GetTokenCall(task[t].tokenHint), found # {})
           verified == verifyToken(found, tk.client)
       IN task' = [task EXCEPT ![t] =
                     IF verifyTokenThrows(found) THEN Throw(tk, TypeError, hdr)
                     ELSE IF verified
                     THEN [tk EXCEPT !.pc = "revokeToken"]
                     ELSE [tk EXCEPT !.pc = "done"]]
  /\ UNCHANGED <<call, options, now, ticks, codes, tokens, nextId, started, capValidateScope,
                 observed>>

\* invalidateToken: Model.revokeAccessToken(token) or
\* Model.revokeRefreshToken(token) deletes the token record and returns
\* whether it was still stored; then the success response.
RevokeInvalidateToken(t) ==
  /\ task[t].pc = "revokeToken"
  /\ LET found == ModelGetTokenByHint(task[t].tokenHint, task[t].cred)
         tk == Called(task[t],
                      IF task[t].tokenHint = "access_token"
                      THEN "revokeAccessToken" ELSE "revokeRefreshToken",
                      found # {})
     IN /\ tokens' = tokens \ found
        /\ task' = [task EXCEPT ![t] = [tk EXCEPT !.pc = "done"]]
  /\ UNCHANGED <<call, options, now, ticks, codes, nextId, started, capValidateScope, observed>>

\* ------------------------------------------------------------------------
\* The environment and the specification
\* ------------------------------------------------------------------------
\* The host has taken the response (or the rethrown error) of a finished
\* invocation; the task is free for the next request.  Handlers are built
\* per call and keep nothing.
Finish(t) ==
  /\ task[t].pc = "done"
  /\ task' = [task EXCEPT ![t] = IdleTask]
  /\ UNCHANGED <<call, options, now, ticks, codes, tokens, nextId, started, capValidateScope,
                 observed>>

\* The Model calls that may fail with an exception of their own: the
\* first Model call of every endpoint.
ThrowingCalls == {"getClient", "getAccessToken"}

\* The Model call the task awaits throws (the backend is unreachable): the
\* rejection surfaces at the await inside execute and reaches its catch.
ModelThrows(t) ==
  /\ task[t].pc \in ThrowingCalls
  /\ \E hdr \in BOOLEAN :
       task' = [task EXCEPT ![t] = Throw(task[t], ModelError, hdr)]
  /\ UNCHANGED <<call, options, now, ticks, codes, tokens, nextId, started, capValidateScope,
                 observed>>

\* Fault: a falsy value from the Model's generator is taken as it is.
GeneratedTokenNoFallback(outcome, random) ==
  IF outcome = "model"
  THEN <<"m1", "m2", "m3", "m4", "m5", "m6", "m7", "m8", "m9", "m10", "m11",
         "m12">>[CHOOSE n \in 1..12 : generateRandomToken(n - 1) = random]
  ELSE NULL

\* AbstractGrant.generateAccessToken / generateRefreshToken and
\* ImplicitGrant.createToken when the Model implements the generator:
\* `token ? token : tokenUtil.generateRandomToken()`.  `outcome` is what
\* the Model returned, a value of its own ("model") or a falsy value;
\* `random` is the engine's value.
GeneratedToken(outcome, random) ==
  IF outcome = "model"
  THEN <<"m1", "m2", "m3", "m4", "m5", "m6", "m7", "m8", "m9", "m10", "m11",
         "m12">>[CHOOSE n \in 1..12 : generateRandomToken(n - 1) = random]
  ELSE random

\* The Model implements the generators and they return to the task, which
\* has built its record with the engine's values so far (whether the Model
\* implements them is chosen per request, and its generators behave alike
\* within one request).  The grants put the value in the token record;
\* CodeResponse.createAuthorizationCode throws ServerError on a falsy
\* value.
ModelGenerates(t) ==
  /\ task[t].pc \in {"saveToken", "saveAuthorizationCode"}
  /\ task[t].generated = "none"
  /\ \E outcome \in {"falsy", "model"} :
       LET tk == [task[t] EXCEPT !.generated = outcome]
       IN task' = [task EXCEPT ![t] =
            IF tk.pc = "saveToken"
            THEN [tk EXCEPT
                    !.token.accessToken = GeneratedToken(outcome, @),
                    !.token.refreshToken =
                      IF @ = NULL THEN NULL ELSE GeneratedToken(outcome, @)]
            ELSE IF outcome = "falsy"
            THEN Throw(tk, "server_error", FALSE)
            ELSE [tk EXCEPT !.code.authorizationCode =
                              GeneratedToken(outcome, @)]]
  /\ UNCHANGED <<call, options, now, ticks, codes, tokens, nextId, started,
                 capValidateScope, observed>>

\* Time passes.
Tick ==
  /\ ticks < MaxTicks
  /\ ticks' = ticks + 1
  /\ now' = now + TickStep
  /\ UNCHANGED <<call, options, codes, tokens, nextId, started, capValidateScope, task, observed>>

\* ------------------------------------------------------------------------
\* The facade (server.js): per-call options and endpoint defaults
\* ------------------------------------------------------------------------
\* An option is given as a JavaScript value: "undefined", the booleans
\* "true" and "false", the literal strings "'true'" and "'false'"; "absent"
\* is a mapping without the key.
\* The boolean options of each facade method that its handler reads, with
\* the endpoint default of each.
FacadeOptions ==
  {[method |-> "authorize", key |-> "allowEmptyState", default |-> "false"],
   [method |-> "authenticate", key |-> "allowBearerTokensInQueryString",
    default |-> "false"],
   [method |-> "authenticate", key |-> "addAcceptedScopesHeader",
    default |-> "true"],
   [method |-> "token", key |-> "alwaysIssueNewRefreshToken",
    default |-> "true"],
   [method |-> "introspect", key |-> "isClientSecretRequired",
    default |-> "true"],
   [method |-> "revoke", key |-> "isClientSecretRequired",
    default |-> "true"]}

\* The option records as the OAuth2Server constructor builds them.
DefaultOptions == [o \in FacadeOptions |-> o.default]

\* OAuth2Server.cleanOptions on one entry of the mapping: the value kept
\* under the key, or "absent" when the entry is dropped.
cleanOptions(value) ==
  IF value = "undefined" THEN "absent"
  ELSE IF value \in {"true", "'true'"} THEN "true"
  ELSE IF value \in {"false", "'false'"} THEN "false"
  ELSE value

\* The value under the key in the options the facade method hands to the
\* handler: authorize, token, introspect and revoke spread the cleaned
\* options over the defaults; authenticate spreads the options as given.
EffectiveOption(option, given) ==
  LET opts == IF option.method = "authenticate" THEN given
              ELSE cleanOptions(given)
  IN IF opts = "absent" THEN options[option] ELSE opts

\* The boolean the handler acts on.  The request constructors that take
\* allowEmptyState, allowBearerTokensInQueryString and
\* isClientSecretRequired have a default parameter, which replaces
\* `undefined`; the other options are tested as they are, and a string
\* that is not empty is truthy.
HandlerReads(option, value) ==
  IF value # "undefined" THEN value \in {"true", "'true'", "'false'"}
  ELSE IF option.key \in {"allowEmptyState", "allowBearerTokensInQueryString"}
  THEN FALSE
  ELSE IF option.key = "isClientSecretRequired" THEN TRUE
  ELSE FALSE

\* No facade call is being resolved.
NoCall ==
  [stage |-> "none", option |-> [method |-> NULL, key |-> NULL, default |-> NULL],
   given |-> "absent", effective |-> NULL, acts |-> FALSE,
   before |-> [method |-> NULL, key |-> NULL, given |-> "absent"],
   required |-> {}, grant_type |-> NULL, client_secret |-> NULL,
   error |-> NULL]

\* The facade calls of the model: a method, one of its options with the
\* value given for it, and for `token` the option
\* requireClientAuthentication (the grant types it flags), the grant type
\* and the client secret of the request.
FacadeCalls ==
  LET plain == {[NoCall EXCEPT !.stage = "pending", !.option = o,
                               !.given = v] :
                  o \in FacadeOptions,
                  v \in {"absent", "undefined", "true", "false", "'true'",
                         "'false'"}}
  IN {c \in plain : c.option.method # "token"} \union
     {[c EXCEPT !.required = r, !.grant_type = g, !.client_secret = sec] :
        c \in {d \in plain : d.option.method = "token"},
        r \in {{GRANT_PW, GRANT_RT}, allowedGrants, {}},
        g \in allowedGrants, sec \in {NULL, ClientSecret}}

\* The host calls a facade method once the call before it has returned.
\* `before` remembers the method, the option and the value of that call.
FacadeInvoke ==
  /\ started < MaxRequests
  /\ \/ call.stage = "none"
     \/ call.stage = "handler" /\ call.option.method # "token"
     \/ call.stage = "parsed"
  /\ started' = started + 1
  /\ \E c \in FacadeCalls :
       call' = [c EXCEPT !.before = [method |-> call.option.method,
                                     key |-> call.option.key,
                                     given |-> call.given]]
  /\ UNCHANGED <<now, ticks, codes, tokens, nextId, capValidateScope, task,
                 observed, options>>

\* Fault: the facade method writes the options of the call into the
\* server's option record.
FacadeCallKeepingOptions ==
  /\ call.stage = "pending"
  /\ LET value == EffectiveOption(call.option, call.given)
     IN /\ call' = [call EXCEPT !.stage = "handler", !.effective = value,
                                !.acts = HandlerReads(call.option, value)]
        /\ options' = [options EXCEPT ![call.option] = value]
  /\ UNCHANGED <<now, ticks, codes, tokens, nextId, started, capValidateScope,
                 task, observed>>

\* The facade method up to the construction of the handler: the options
\* handed to the handler are a new record, the server's are left alone.
FacadeCall ==
  /\ call.stage = "pending"
  /\ LET value == EffectiveOption(call.option, call.given)
     IN call' = [call EXCEPT !.stage = "handler", !.effective = value,
                             !.acts = HandlerReads(call.option, value)]
  /\ UNCHANGED <<now, ticks, codes, tokens, nextId, started, capValidateScope,
                 task, observed, options>>

\* TokenHandler.execute: the TokenRequest constructor under the option
\* requireClientAuthentication of the call.
FacadeTokenRequest ==
  /\ call.stage = "handler"
  /\ call.option.method = "token"
  /\ call' = [call EXCEPT
                !.stage = "parsed",
                !.error = TokenRequestErrorWith("form-post", call.grant_type,
                                                "c1", call.client_secret,
                                                call.required)]
  /\ UNCHANGED <<now, ticks, codes, tokens, nextId, started, capValidateScope,
                 task, observed, options>>

Init ==
  /\ now = 0
  /\ ticks = 0
  /\ codes = SeedCodes
  /\ tokens = SeedTokens
  /\ nextId = 0
  /\ started = 0
  /\ capValidateScope \in BOOLEAN
  /\ task = [t \in Tasks |-> IdleTask]
  /\ observed = [c \in {k.authorizationCode : k \in SeedCodes} |-> NoneObserved]
  /\ call = NoCall
  /\ options = DefaultOptions

\* One step of task t on the Token endpoint.
TokenStep(t) ==
  \/ TokenExecute(t)
  \/ TokenAuthenticateClientFails(t)
  \/ AuthorizationCodeExecute(t)
  \/ AuthorizationCodeValidate(t)
  \/ AuthorizationCodeRevoke(t)
  \/ RefreshTokenExecute(t)
  \/ RefreshTokenValidate(t)
  \/ RefreshTokenRevoke(t)
  \/ PasswordExecute(t)
  \/ PasswordValidateUser(t)
  \/ ClientCredentialsExecute(t)
  \/ ClientCredentialsValidateUser(t)
  \/ GrantValidateScope(t)
  \/ GrantSaveToken(t)

\* One step of task t on the Authenticate endpoint or, for the steps of the
\* bearer handler, on the Authorize endpoint.
AuthenticateStep(t) ==
  \/ AuthenticateExecute(t)
  \/ AuthenticateValidate(t)
  \/ AuthenticateVerifyScope(t)

\* One step of task t on the Authorize endpoint.
AuthorizeStep(t) ==
  \/ AuthorizeExecute(t)
  \/ AuthorizeHostAuthenticated(t)
  \/ AuthorizeValidateClient(t)
  \/ AuthorizeValidateScope(t)
  \/ AuthorizeSaveAuthorizationCode(t)
  \/ AuthorizeSaveToken(t)

\* One step of task t on the Introspect endpoint.
IntrospectStep(t) ==
  \/ IntrospectExecute(t)
  \/ IntrospectAuthenticateClient(t)
  \/ IntrospectVerifyToken(t)

\* One step of task t on the Revoke endpoint.
RevokeStep(t) ==
  \/ RevokeExecute(t)
  \/ RevokeAuthenticateClient(t)
  \/ RevokeVerifyToken(t)
  \/ RevokeInvalidateToken(t)

\* The host serves one request at a time, on any endpoint.
Next ==
  \/ TokenStep("t1")
  \/ AuthenticateStep("t1")
  \/ AuthorizeStep("t1")
  \/ IntrospectStep("t1")
  \/ RevokeStep("t1")
  \/ ModelThrows("t1")
  \/ ModelGenerates("t1")
  \/ Finish("t1")
  \/ Tick

Spec == Init /\ [][Next]_vars

\* Two invocations of the Token endpoint run in parallel and interleave at
\* every Model call; the Model implements no generator.
NextConcurrent ==
  \/ \E t \in Tasks : TokenStep(t)
  \/ \E t \in Tasks : ModelThrows(t)
  \/ \E t \in Tasks : Finish(t)
  \/ Tick

SpecConcurrent == Init /\ [][NextConcurrent]_vars

\* The host calls the facade methods one after the other, whatever the
\* method and the options given.
InitFacade ==
  /\ now = 0
  /\ ticks = 0
  /\ codes = SeedCodes
  /\ tokens = SeedTokens
  /\ nextId = 0
  /\ started = 0
  /\ capValidateScope = TRUE
  /\ task = [t \in Tasks |-> IdleTask]
  /\ observed = [c \in {k.authorizationCode : k \in SeedCodes} |-> NoneObserved]
  /\ call = NoCall
  /\ options = DefaultOptions

NextFacade ==
  \/ FacadeInvoke
  \/ FacadeCall
  \/ FacadeTokenRequest

SpecFacade == InitFacade /\ [][NextFacade]_vars

\* ------------------------------------------------------------------------
\* Properties
\* ------------------------------------------------------------------------
\* The Model call `name` has returned to the task.
HasCall(tk, name) == \E i \in 1..Len(tk.calls) : tk.calls[i].op = name

\* The Model call `name` has returned a truthy value to the task.
CallOk(tk, name) ==
  \E i \in 1..Len(tk.calls) : tk.calls[i].op = name /\ tk.calls[i].ok

\* The Model call `name` has returned a falsy value to the task.
CallFalsy(tk, name) ==
  \E i \in 1..Len(tk.calls) : tk.calls[i].op = name /\ ~tk.calls[i].ok

\* The call `first` returned truthy to the task before the call `second`
\* returned.
CallOkBefore(tk, first, second) ==
  \A j \in 1..Len(tk.calls) :
    tk.calls[j].op = second =>
      \E i \in 1..(j - 1) : tk.calls[i].op = first /\ tk.calls[i].ok

\* The task runs the grant g of the Token endpoint.
InGrant(tk, g) == tk.ep = "token" /\ tk.grantType = g /\ tk.client # NULL

\* The task has called Model.saveToken or awaits it.
AtSaveToken(tk) == tk.pc = "saveToken" \/ HasCall(tk, "saveToken")

\* C1 (as the spec states it): the redemption of an authorization code
\* whose revocation returned truthy (the first valid redemption of the
\* code) ends with a token issued to the client.
C1_FirstRedemptionIssuesToken ==
  \A t \in Tasks :
    (InGrant(task[t], GRANT_AC) /\ task[t].pc = "done"
       /\ CallOk(task[t], "revokeAuthorizationCode"))
      => (task[t].error = NULL /\ ~Falsy(task[t].body.accessToken))

\* C2: whatever the interleaving of the redemptions of one authorization
\* code, revokeAuthorizationCode returns truthy at most once for the code
\* and saveToken is called at most once for it, by a redemption whose
\* revocation returned truthy.
C2_RedeemableAtMostOnce ==
  \A c \in IssuedCodes :
    /\ observed[c].truthy <= 1
    /\ observed[c].saveToken <= observed[c].truthy
    /\ Cardinality({t \in Tasks : InGrant(task[t], GRANT_AC)
                                    /\ task[t].cred = c
                                    /\ AtSaveToken(task[t])}) <= 1

\* Two redemptions of one code have both passed validation and both called
\* revokeAuthorizationCode; one of them has called saveToken.
C2_Witness ==
  \E c \in IssuedCodes :
    observed[c].revoke = 2 /\ observed[c].truthy = 1 /\ observed[c].saveToken = 1

\* C3: in a redemption of an authorization code, createToken (the scope
\* validation, then saveToken) is reached only after
\* revokeAuthorizationCode has returned truthy in the same request; after a
\* falsy result the request ends with invalid_grant and without a
\* saveToken call.
C3_SaveOnlyAfterTruthyRevoke ==
  \A t \in Tasks :
    InGrant(task[t], GRANT_AC) =>
      /\ (task[t].pc \in {"validateScope", "saveToken"}
            => CallOk(task[t], "revokeAuthorizationCode"))
      /\ CallOkBefore(task[t], "revokeAuthorizationCode", "validateScope")
      /\ CallOkBefore(task[t], "revokeAuthorizationCode", "saveToken")
      /\ (CallFalsy(task[t], "revokeAuthorizationCode")
            => /\ task[t].pc = "done"
               /\ task[t].error = "invalid_grant"
               /\ ~HasCall(task[t], "saveToken"))

\* A redemption whose revokeAuthorizationCode call returned falsy (another
\* redemption had revoked the code) has ended with invalid_grant.
C3_Witness ==
  \E t \in Tasks :
    /\ InGrant(task[t], GRANT_AC)
    /\ CallFalsy(task[t], "revokeAuthorizationCode")
    /\ task[t].error = "invalid_grant"
    /\ \E u \in Tasks \ {t} :
         InGrant(task[u], GRANT_AC) /\ task[u].cred = task[t].cred
           /\ HasCall(task[u], "saveToken")

\* C4: in a refresh_token exchange with alwaysIssueNewRefreshToken,
\* saveToken is reached only after revokeRefreshToken has returned truthy
\* for the old token; the record passed to saveToken carries a refresh
\* token that differs from the old one and from every stored one, and the
\* response returns it; after a falsy revoke result the request ends with
\* invalid_grant and without a saveToken call.
C4_RotationRevokesBeforeSave ==
  \A t \in Tasks :
    (InGrant(task[t], GRANT_RT) /\ task[t].alwaysIssueNewRefreshToken) =>
      /\ (AtSaveToken(task[t]) => CallOk(task[t], "revokeRefreshToken"))
      /\ CallOkBefore(task[t], "revokeRefreshToken", "saveToken")
      /\ (AtSaveToken(task[t])
            => /\ ~Falsy(task[t].token.refreshToken)
               /\ task[t].token.refreshToken # task[t].cred)
      /\ (task[t].pc = "saveToken"
            => task[t].token.refreshToken
                 \notin {k.refreshToken : k \in tokens})
      /\ ((task[t].pc = "done" /\ task[t].error = NULL)
            => /\ HasCall(task[t], "saveToken")
               /\ task[t].body.refreshToken = task[t].token.refreshToken)
      /\ (CallFalsy(task[t], "revokeRefreshToken")
            => /\ task[t].pc = "done"
               /\ task[t].error = "invalid_grant"
               /\ ~HasCall(task[t], "saveToken"))

\* Two exchanges of one refresh token with alwaysIssueNewRefreshToken: one
\* has ended with a new refresh token, the other's revokeRefreshToken call
\* returned falsy and it has ended with invalid_grant.
C4_Witness ==
  \E t \in Tasks, u \in Tasks :
    /\ InGrant(task[t], GRANT_RT) /\ task[t].alwaysIssueNewRefreshToken
    /\ task[t].pc = "done" /\ task[t].error = NULL
    /\ task[t].body.refreshToken # task[t].cred
    /\ InGrant(task[u], GRANT_RT) /\ task[u].alwaysIssueNewRefreshToken
    /\ task[u].cred = task[t].cred
    /\ CallFalsy(task[u], "revokeRefreshToken")
    /\ task[u].error = "invalid_grant"

\* The error with which a request presenting the stored credential `k`
\* must end when k was issued to another client than the authenticated one.
C5_ForeignError(k) ==
  IF ~k.hasClient \/ Falsy(k.user) THEN "server_error" ELSE "invalid_grant"

\* The task has called neither a revoke capability nor saveToken.
C5_NothingConsumed(tk) ==
  /\ ~HasCall(tk, "revokeAuthorizationCode")
  /\ ~HasCall(tk, "revokeRefreshToken")
  /\ ~HasCall(tk, "saveToken")

\* The step of task t when the Model returns to it the stored credential
\* of another client: the request ends with an error of `errors(k)`, no
\* revoke and no saveToken call is made, and the Model keeps the
\* credential.
C5_ForeignCredentialStep(t, errors(_)) ==
  LET found == IF task[t].pc = "getAuthorizationCode"
               THEN ModelGetAuthorizationCode(task[t].cred)
               ELSE ModelGetRefreshToken(task[t].cred)
  IN (/\ task[t].ep = "token"
      /\ task[t].pc \in {"getAuthorizationCode", "getRefreshToken"}
      /\ task'[t] # task[t]
      /\ \E k \in found : k.client # task[t].client)
       => /\ task'[t].pc = "done"
          /\ \A k \in found : task'[t].error \in errors(k)
          /\ C5_NothingConsumed(task'[t])
          /\ codes' = codes
          /\ tokens' = tokens

C6_TokenBoundToCode ==
  \A t \in Tasks :
    (InGrant(task[t], GRANT_AC) /\ AtSaveToken(task[t])
       /\ task[t].cred \notin {k.authorizationCode : k \in SeedCodes})
      => /\ task[t].token.client = task[t].client
         /\ task[t].token.user = task[t].credUser
         /\ task[t].token.scope = task[t].credScope

\* C7: the step of a refresh_token exchange that builds the token record
\* for saveToken gives it the scope of the stored old token, whatever the
\* request's scope parameter is.
C7_RefreshKeepsScope ==
  [][\A t \in Tasks :
       (/\ task[t].pc \in {"getRefreshToken", "revokeRefreshToken"}
        /\ task'[t].pc = "saveToken")
         => \E k \in ModelGetRefreshToken(task[t].cred) :
              task'[t].token.scope = k.scope]_vars

\* A refresh_token exchange whose request asks for another scope than the
\* old token's awaits saveToken with the old token's scope.
C7_Witness ==
  \E t \in Tasks :
    /\ InGrant(task[t], GRANT_RT)
    /\ task[t].pc = "saveToken"
    /\ ~Falsy(task[t].reqScope)
    /\ task[t].reqScope # task[t].credScope
    /\ task[t].token.scope = task[t].credScope

\* The Authorize task persists: it awaits or has made the
\* saveAuthorizationCode or saveToken call.
C8_Persists(tk) ==
  \/ tk.pc \in {"saveAuthorizationCode", "saveToken"}
  \/ HasCall(tk, "saveAuthorizationCode")
  \/ HasCall(tk, "saveToken")

\* The steps that precede the persisting call, in order: the request
\* parsed, the authenticate handler returned a user, Model.getClient
\* returned a client allowed the grant of the response type and registered
\* with the request's redirect_uri, and the scope validation passed.
C8_Pipeline(tk) ==
  LET n == IF Len(tk.calls) >= 3 /\ tk.calls[3].op = "verifyScope"
           THEN 4 ELSE 3
      grant == IF tk.responseType = "code" THEN GRANT_AC ELSE "implicit"
  IN /\ Len(tk.calls) >= n
     /\ tk.calls[1].op = "parsed"
     /\ tk.calls[2].op \in {"authenticateHandler", "getAccessToken"}
     /\ \A i \in 2..n : tk.calls[i].ok
     /\ ~Falsy(tk.user)
     /\ tk.calls[n].op = "getClient"
     /\ tk.client = tk.clientId
     /\ ModelGetClient(tk.client, NULL) # {}
     /\ grant \in ClientRecord(tk.client).grants
     /\ tk.reqRedirectUri \in ClientRecord(tk.client).redirectUris
     /\ (capValidateScope
           => /\ Len(tk.calls) > n
              /\ tk.calls[n + 1].op = "validateScope"
              /\ tk.calls[n + 1].ok)
     /\ (HasCall(tk, "saveAuthorizationCode") \/ tk.pc = "saveAuthorizationCode")
          => tk.responseType = "code"
     /\ (HasCall(tk, "saveToken") \/ tk.pc = "saveToken")
          => tk.responseType = "token"

\* C8: the Authorize endpoint reaches saveAuthorizationCode or saveToken
\* only after the parse, the authentication of the resource owner, the
\* validation of the client and the validation of the scope have passed, in
\* this order; a request one of whose steps failed has ended with an error
\* and persists nothing.
C8_PersistOnlyAfterPipeline ==
  \A t \in Tasks :
    task[t].ep = "authorize" =>
      /\ C8_Persists(task[t]) => C8_Pipeline(task[t])
      /\ (\E i \in 1..Len(task[t].calls) : ~task[t].calls[i].ok)
           => /\ ~C8_Persists(task[t])
              /\ task[t].pc = "done"
              /\ task[t].error # NULL
      /\ (task[t].pc = "done" /\ task[t].calls = <<>>) => task[t].error # NULL

\* An Authorize request authenticated by a bearer token has persisted an
\* authorization code after the Model validated its scope.
C8_Witness ==
  \E t \in Tasks :
    /\ task[t].ep = "authorize"
    /\ task[t].pc = "done"
    /\ CallOk(task[t], "getAccessToken")
    /\ CallOk(task[t], "validateScope")
    /\ HasCall(task[t], "saveAuthorizationCode")
    /\ task[t].code \in codes

\* The Model calls of the grant flows.
C9_GrantCalls ==
  {"getUser", "getUserFromClient", "getAuthorizationCode", "getRefreshToken",
   "revokeAuthorizationCode", "revokeRefreshToken", "validateScope",
   "saveToken"}

\* The Token task runs a grant flow.
C9_RunsGrant(tk) ==
  \/ tk.client # NULL
  \/ tk.pc \notin {"idle", "getClient", "done"}
  \/ \E i \in 1..Len(tk.calls) : tk.calls[i].op \in C9_GrantCalls

\* The error of a Token request that runs no grant flow, as the spec
\* states it.
C9_StatedError(tk) ==
  IF tk.grantType \notin allowedGrants THEN "unsupported_grant_type"
  ELSE IF CallFalsy(tk, "getClient") THEN "invalid_client"
  ELSE "unauthorized_client"

\* The error of a Token request that runs no grant flow: a missing or
\* malformed grant_type is an invalid_request, and a client record without
\* `grants` is a server_error.
C9_AmendedError(tk) ==
  IF Falsy(tk.grantType) \/ (~nchar(tk.grantType) /\ ~uri(tk.grantType))
  THEN "invalid_request"
  ELSE IF tk.grantType \notin allowedGrants THEN "unsupported_grant_type"
  ELSE IF CallFalsy(tk, "getClient") THEN "invalid_client"
  ELSE IF ~ClientRecord(tk.clientId).hasGrants THEN "server_error"
  ELSE "unauthorized_client"

\* The Token request is a form-encoded POST that has ended without running
\* a grant flow, on its grant type or on the client Model.getClient
\* returned.
C9_Refused(tk) ==
  /\ tk.ep = "token"
  /\ tk.pc = "done"
  /\ tk.shape = "form-post"
  /\ ~C9_RunsGrant(tk)
  /\ (tk.grantType \notin allowedGrants \/ HasCall(tk, "getClient"))

\* A Token task runs a grant flow only if its grant type is allowed,
\* Model.getClient returned a client and the grant type is one of the
\* client's grants.
C9_GrantOnlyIfAllowed(tk) ==
  (tk.ep = "token" /\ C9_RunsGrant(tk)) =>
    /\ tk.grantType \in allowedGrants
    /\ CallOk(tk, "getClient")
    /\ tk.calls[1].op = "getClient"
    /\ tk.client = tk.clientId
    /\ ClientRecord(tk.client).hasGrants
    /\ tk.grantType \in ClientRecord(tk.client).grants

C10_UserOnlyForValidToken ==
  \A t \in Tasks :
    task[t].ep = "authenticate" =>
      LET tk == task[t]
          found == ModelGetAccessToken(tk.cred)
      IN /\ tk.returned # NULL
              => /\ tk.pc = "done" /\ tk.error = NULL
                 /\ \E k \in found :
                      /\ k.user = tk.returned
                      /\ k.accessTokenExpiresAt # 0
                      /\ k.accessTokenExpiresAt >= tk.t0
                      /\ ~Falsy(tk.scope)
                           => /\ CallOk(tk, "verifyScope")
                              /\ ModelVerifyScope(k.scope, tk.scope)
         /\ CallFalsy(tk, "getAccessToken")
              => /\ tk.pc = "done" /\ tk.returned = NULL
                 /\ tk.error = "invalid_token" /\ tk.status = 401
         /\ (/\ tk.pc = "done"
             /\ CallOk(tk, "getAccessToken")
             /\ \E k \in found : /\ ~Falsy(k.user)
                                 /\ k.accessTokenExpiresAt # 0
                                 /\ k.accessTokenExpiresAt < tk.t0)
              => /\ tk.returned = NULL
                 /\ tk.error = "invalid_token" /\ tk.status = 401
         /\ CallFalsy(tk, "verifyScope")
              => /\ tk.pc = "done" /\ tk.returned = NULL
                 /\ tk.error = "insufficient_scope" /\ tk.status = 403

\* The Authenticate endpoint has returned the user of a token that is at
\* its expiry instant, after verifyScope returned truthy.
C10_Witness ==
  \E t \in Tasks :
    /\ task[t].ep = "authenticate"
    /\ task[t].returned # NULL
    /\ CallOk(task[t], "verifyScope")
    /\ \E k \in ModelGetAccessToken(task[t].cred) :
         k.accessTokenExpiresAt = task[t].t0

\* The number of places a bearer request presents its token in: the
\* Authorization header, the query, the body.
PresentedIn(tk) ==
  (IF tk.header # "absent" THEN 1 ELSE 0) + (IF tk.inQuery THEN 1 ELSE 0)
  + (IF tk.inBody THEN 1 ELSE 0)

\* C11: a Bearer Authenticate request that presents its token in two or
\* more of the Authorization header, the query and the body ends with
\* invalid_request, whatever allowBearerTokensInQueryString is, and
\* Model.getAccessToken is not called.
C11_TwoSourcesInvalidRequest ==
  \A t \in Tasks :
    (task[t].ep = "authenticate" /\ PresentedIn(task[t]) >= 2) =>
      /\ task[t].pc = "done"
      /\ task[t].error = "invalid_request"
      /\ task[t].status = 400
      /\ task[t].returned = NULL
      /\ ~HasCall(task[t], "getAccessToken")

\* C11 witness: a request with a well-formed Authorization header and a
\* token in the query as well has ended with invalid_request.
C11_Witness ==
  \E t \in Tasks :
    /\ task[t].ep = "authenticate"
    /\ task[t].header = "bearer"
    /\ task[t].inQuery
    /\ ~task[t].inBody
    /\ task[t].pc = "done"
    /\ task[t].error = "invalid_request"

\* C12: a Bearer Authenticate request that presents no token ends with
\* unauthorized_request: status 401, WWW-Authenticate: Bearer
\* realm="Service", and no Model call; no other error sets that header.
C12_MissingCredentials ==
  \A t \in Tasks :
    task[t].ep = "authenticate" =>
      /\ PresentedIn(task[t]) = 0 /\ task[t].pc # "idle" =>
            /\ task[t].pc = "done"
            /\ task[t].error = "unauthorized_request"
            /\ task[t].status = 401
            /\ task[t].wwwAuthenticate = "Bearer realm=\"Service\""
            /\ task[t].calls = <<>>
            /\ task[t].returned = NULL
      /\ task[t].wwwAuthenticate # NULL =>
            task[t].error = "unauthorized_request"

\* C12 witness: a request without a token has been answered, and so has a
\* request that ended with another error.
C12_Witness ==
  \E t \in Tasks :
    /\ task[t].ep = "authenticate"
    /\ PresentedIn(task[t]) = 0
    /\ task[t].pc = "done"
    /\ task[t].wwwAuthenticate = "Bearer realm=\"Service\""

\* The Authorize endpoint has answered the task's request with an error.
AuthorizeFailed(tk) ==
  tk.ep = "authorize" /\ tk.pc = "done" /\ tk.error # NULL

\* C13: when the Authorize endpoint fails with invalid_client or
\* unauthorized_request, the response has status 401 and the error body,
\* and no redirect: no Location header and a status other than 302.
C13_NoRedirectForClientErrors ==
  \A t \in Tasks :
    (AuthorizeFailed(task[t])
     /\ task[t].error \in {"invalid_client", "unauthorized_request"}) =>
      /\ task[t].status = 401
      /\ ~task[t].location.set
      /\ task[t].location = NoLocation

\* C13 witness: a request with a redirect_uri has ended with
\* invalid_client after Model.getClient found no client.
C13_Witness ==
  \E t \in Tasks :
    /\ AuthorizeFailed(task[t])
    /\ task[t].error = "invalid_client"
    /\ task[t].reqRedirectUri = UriApp
    /\ CallFalsy(task[t], "getClient")
    /\ task[t].status = 401

\* C14 (as the spec states it): when the Authorize endpoint fails with an
\* error other than invalid_client / unauthorized_request and the request
\* carried no redirect_uri, no redirect is produced: no Location header,
\* a status other than 302, the error's own status.
C14_NoRedirectWithoutUri ==
  \A t \in Tasks :
    (AuthorizeFailed(task[t])
     /\ task[t].error \notin {"invalid_client", "unauthorized_request"}
     /\ Falsy(task[t].reqRedirectUri)) =>
      /\ ~task[t].location.set
      /\ task[t].status # 302
      /\ task[t].status = ErrorStatus(task[t].error)

\* The query parameters the success redirect of the code flow carries
\* according to the spec: code, then scope if present, then state if
\* present.
C15_StatedQuery(tk) ==
  <<[k |-> "code", v |-> tk.code.authorizationCode]>>
  \o (IF ~Falsy(tk.code.scope) THEN <<[k |-> "scope", v |-> tk.code.scope]>>
      ELSE <<>>)
  \o (IF ~Falsy(tk.reqState) THEN <<[k |-> "state", v |-> tk.reqState]>>
      ELSE <<>>)

\* C15 (as the spec states it): a successful Authorize request with
\* response_type=code answers 302 with a Location that is the redirect_uri
\* with its original query cleared and code, scope, state added; a
\* parameter of the original query does not appear.
C15_CodeRedirectDropsQuery ==
  \A t \in Tasks :
    (task[t].ep = "authorize" /\ task[t].pc = "done"
     /\ task[t].responseType = "code" /\ task[t].error = NULL) =>
      /\ task[t].status = 302
      /\ task[t].location.set
      /\ task[t].location.uri = UrlParse(task[t].reqRedirectUri, TRUE).path
      /\ task[t].location.query = C15_StatedQuery(task[t])
      /\ \A i \in 1..Len(task[t].location.query) :
           task[t].location.query[i].k # "foo"

C17_Answered(tk) ==
  tk.ep = "introspect" /\ tk.pc = "done" /\ CallOk(tk, "getClient")

\* The token loaded per token_hint exists, was issued to the authenticated
\* client, and its expiry matching the hint is not past (an absent expiry
\* is not past).
C17_Active(tk) ==
  \E k \in ModelGetTokenByHint(tk.tokenHint, tk.cred) :
    /\ k.hasClient
    /\ k.client = tk.client
    /\ LET expiresAt == HintedExpiresAt(tk.tokenHint, k)
       IN expiresAt = 0 \/ expiresAt >= tk.t0

\* C17 (as the spec states it): an authenticated Introspect request gets
\* {active: true, client_id, username, scope, expires_at} if and only if
\* the token loaded per hint exists, belongs to the authenticated client
\* and is not past its expiry; in every other case the endpoint completes
\* successfully with exactly {active: false}.
C17_ActiveIffVerified ==
  \A t \in Tasks :
    C17_Answered(task[t]) =>
      /\ task[t].error = NULL
      /\ task[t].status = 200
      /\ task[t].result.set
      /\ task[t].result.active <=> C17_Active(task[t])
      /\ ~task[t].result.active => task[t].result = Inactive
      /\ task[t].result.active => task[t].result.client_id = task[t].client

\* The number of Model.revokeAccessToken / Model.revokeRefreshToken calls
\* the task has made.
C18_RevokeCalls(tk) ==
  Cardinality({i \in 1..Len(tk.calls) :
                 tk.calls[i].op \in {"revokeAccessToken", "revokeRefreshToken"}})

\* The token the request names is stored and was issued to the
\* authenticated client.
C18_Owned(tk) ==
  \E k \in ModelGetTokenByHint(tk.tokenHint, tk.cred) :
    k.hasClient /\ k.client = tk.client

\* C18: after successful client authentication, Revoke calls the revoke
\* capability that token_hint names exactly once if the token loaded per
\* hint exists and belongs to the authenticated client, and not at all
\* otherwise; in both cases it completes with the success response
\* (status 200, no error).
C18_RevokeOnlyOwnToken ==
  \A t \in Tasks :
    (task[t].ep = "revoke" /\ CallOk(task[t], "getClient")) =>
      /\ task[t].pc = "getToken" => C18_RevokeCalls(task[t]) = 0
      /\ task[t].pc = "revokeToken" =>
            C18_Owned(task[t]) /\ C18_RevokeCalls(task[t]) = 0
      /\ task[t].pc = "done" =>
            /\ task[t].error = NULL
            /\ task[t].status = 200
            /\ C18_RevokeCalls(task[t]) <= 1
            /\ C18_RevokeCalls(task[t]) = 1 =>
                 /\ CallOk(task[t], GetTokenCall(task[t].tokenHint))
                 /\ HasCall(task[t], IF task[t].tokenHint = "access_token"
                                     THEN "revokeAccessToken"
                                     ELSE "revokeRefreshToken")
                 /\ ModelGetTokenByHint(task[t].tokenHint, task[t].cred) = {}
            /\ C18_RevokeCalls(task[t]) = 0 => ~C18_Owned(task[t])

\* C18 witness: a request has revoked a refresh token of its client and
\* has been answered with the success response.
C18_Witness ==
  \E t \in Tasks :
    /\ task[t].ep = "revoke"
    /\ task[t].pc = "done"
    /\ task[t].tokenHint = "refresh_token"
    /\ CallOk(task[t], "revokeRefreshToken")
    /\ task[t].error = NULL
    /\ task[t].status = 200

\* The step in which bearer authentication validates a stored access token
\* whose accessTokenExpiresAt equals the instant the handler read the clock
\* ends with invalid_token.
C19_BearerStep(t) ==
  (/\ task[t].pc = "getAccessToken"
   /\ task'[t].pc # "getAccessToken"
   /\ \E k \in ModelGetAccessToken(task[t].cred) :
        /\ ~Falsy(k.user)
        /\ k.accessTokenExpiresAt # 0
        /\ k.accessTokenExpiresAt = task[t].t0)
    => task'[t].error = "invalid_token"

\* The step in which the authorization_code grant validates a stored code
\* whose expiresAt equals the instant the grant read the clock ends with
\* invalid_grant.
C19_CodeStep(t) ==
  (/\ task[t].pc = "getAuthorizationCode"
   /\ task'[t].pc # "getAuthorizationCode"
   /\ \E c \in ModelGetAuthorizationCode(task[t].cred) :
        c.hasExpiresAt /\ c.expiresAt = task[t].t0)
    => task'[t].error = "invalid_grant"

\* The step in which the refresh_token grant validates a stored refresh
\* token whose refreshTokenExpiresAt equals the current instant ends with
\* invalid_grant.
C19_RefreshStep(t) ==
  (/\ task[t].pc = "getRefreshToken"
   /\ task'[t].pc # "getRefreshToken"
   /\ \E k \in ModelGetRefreshToken(task[t].cred) :
        /\ k.refreshTokenExpiresAt # 0
        /\ k.refreshTokenExpiresAt = now)
    => task'[t].error = "invalid_grant"

\* The step in which Introspect composes the result for a token of the
\* authenticated client whose hinted expiry equals the current instant
\* answers {active: false}.
C19_IntrospectStep(t) ==
  (/\ task[t].pc = "getToken"
   /\ task[t].ep = "introspect"
   /\ task'[t].pc # "getToken"
   /\ \E k \in ModelGetTokenByHint(task[t].tokenHint, task[t].cred) :
        /\ k.hasClient /\ k.client = task[t].client
        /\ HintedExpiresAt(task[t].tokenHint, k) # 0
        /\ HintedExpiresAt(task[t].tokenHint, k) = now)
    => task'[t].result = Inactive

\* C19 (as the spec states it): in bearer authentication, authorization
\* code redemption, refresh-token exchange and introspection, a credential
\* whose expiry instant equals the current instant is treated as expired:
\* the request is refused (invalid_token, invalid_grant) or answered
\* {active: false}.
C19_ExpiredAtInstant ==
  [][\A t \in Tasks :
       /\ C19_BearerStep(t)
       /\ C19_CodeStep(t)
       /\ C19_RefreshStep(t)
       /\ C19_IntrospectStep(t)]_vars

\* The task redeems, on the Token endpoint, a stored authorization code
\* that Model.getAuthorizationCode has returned to it.
C20_Redeems(tk) ==
  /\ tk.ep = "token"
  /\ tk.grantType = GRANT_AC
  /\ CallOk(tk, "getAuthorizationCode")
  /\ ModelGetAuthorizationCode(tk.cred) # {}

\* The code the task redeems is past its expiresAt at the instant the
\* grant read the clock.
C20_Past(tk) ==
  \E c \in ModelGetAuthorizationCode(tk.cred) :
    c.hasExpiresAt /\ c.expiresAt < tk.t0

\* The code the task redeems carries no expiresAt.
C20_Absent(tk) ==
  \E c \in ModelGetAuthorizationCode(tk.cred) : ~c.hasExpiresAt

\* The code the task redeems was issued to the client the request
\* authenticated.
C20_Own(tk) ==
  \E c \in ModelGetAuthorizationCode(tk.cred) :
    c.hasClient /\ c.client = tk.client

\* The redemption has ended with error e and its status, without a call of
\* Model.revokeAuthorizationCode or Model.saveToken.
C20_RefusedWith(tk, e) ==
  /\ tk.pc = "done"
  /\ tk.error = e
  /\ tk.status = ErrorStatus(e)
  /\ ~HasCall(tk, "revokeAuthorizationCode")
  /\ ~HasCall(tk, "saveToken")

\* C20 (as the spec states it): redeeming an authorization code whose
\* expiresAt is absent or in the past fails with invalid_grant (status
\* 400), and neither Model.revokeAuthorizationCode nor Model.saveToken is
\* called.
C20_AbsentOrPastInvalidGrant ==
  \A t \in Tasks :
    (C20_Redeems(task[t]) /\ (C20_Past(task[t]) \/ C20_Absent(task[t])))
      => /\ C20_RefusedWith(task[t], "invalid_grant")
         /\ task[t].status = 400

\* C20 (amended): redeeming an authorization code whose expiresAt is in
\* the past fails with invalid_grant (status 400); redeeming a code of the
\* authenticated client whose expiresAt is absent fails with server_error
\* (status 500), and one of another client with invalid_grant; in each
\* case neither Model.revokeAuthorizationCode nor Model.saveToken is
\* called and the code stays stored.
C20_ExpiredCodeRefused ==
  \A t \in Tasks :
    C20_Redeems(task[t]) =>
      /\ C20_Past(task[t])
           => /\ C20_RefusedWith(task[t], "invalid_grant")
              /\ task[t].status = 400
      /\ (C20_Absent(task[t]) /\ C20_Own(task[t]))
           => /\ C20_RefusedWith(task[t], "server_error")
              /\ task[t].status = 500
      /\ (C20_Absent(task[t]) /\ ~C20_Own(task[t]))
           => C20_RefusedWith(task[t], "invalid_grant")

\* C20 witness: one request of the owning client has been refused with
\* invalid_grant for a code past its expiresAt, and another with
\* server_error for a code without expiresAt; neither called a revoke or
\* save capability.
C20_Witness ==
  \E t, u \in Tasks :
    /\ C20_Redeems(task[t]) /\ C20_Past(task[t]) /\ C20_Own(task[t])
    /\ C20_RefusedWith(task[t], "invalid_grant")
    /\ C20_Redeems(task[u]) /\ C20_Absent(task[u]) /\ C20_Own(task[u])
    /\ C20_RefusedWith(task[u], "server_error")

\* The refresh token the task presents is stored with a
\* refreshTokenExpiresAt before the current instant.
C21_Past(tk) ==
  \E k \in ModelGetRefreshToken(tk.cred) :
    k.refreshTokenExpiresAt # 0 /\ k.refreshTokenExpiresAt < now

\* The refresh token the task presents is stored without
\* refreshTokenExpiresAt.
C21_Absent(tk) ==
  \E k \in ModelGetRefreshToken(tk.cred) : k.refreshTokenExpiresAt = 0

\* The refresh token the task presents was issued to the authenticated
\* client and carries a user.
C21_Own(tk) ==
  \E k \in ModelGetRefreshToken(tk.cred) :
    k.hasClient /\ k.client = tk.client /\ ~Falsy(k.user)

\* The step of task t in which validateRefreshToken runs on the record
\* Model.getRefreshToken returned.
C21_Validates(t) ==
  /\ task[t].pc = "getRefreshToken"
  /\ task'[t].pc # "getRefreshToken"
  /\ ModelGetRefreshToken(task[t].cred) # {}

\* The exchange has ended with invalid_grant, without a call of
\* Model.revokeRefreshToken or Model.saveToken.
C21_Refused(tk) ==
  /\ tk.pc = "done"
  /\ tk.error = "invalid_grant"
  /\ tk.status = 400
  /\ ~HasCall(tk, "revokeRefreshToken")
  /\ ~HasCall(tk, "saveToken")

\* C21 (as the spec states it): a refresh_token exchange for a stored
\* token whose refreshTokenExpiresAt is absent or in the past fails with
\* invalid_grant, and neither Model.revokeRefreshToken nor Model.saveToken
\* is called.
C21_AbsentOrPastInvalidGrant ==
  [][\A t \in Tasks :
       (C21_Validates(t) /\ (C21_Past(task[t]) \/ C21_Absent(task[t])))
         => C21_Refused(task'[t])]_vars

\* C21 (amended): a refresh_token exchange for a stored token whose
\* refreshTokenExpiresAt is in the past fails with invalid_grant, and
\* neither Model.revokeRefreshToken nor Model.saveToken is called; a token
\* of the authenticated client stored without refreshTokenExpiresAt does
\* not expire and the exchange goes on to revoke it or to save the new
\* token.
C21_ExpiredRefreshTokenRefused ==
  [][\A t \in Tasks :
       C21_Validates(t) =>
         /\ C21_Past(task[t]) => C21_Refused(task'[t])
         /\ (C21_Absent(task[t]) /\ C21_Own(task[t]))
              => /\ task'[t].pc \in {"revokeRefreshToken", "saveToken"}
                 /\ task'[t].error = NULL
         /\ (C21_Absent(task[t]) /\ ~C21_Own(task[t]))
              => task'[t].pc = "done" /\ task'[t].error # NULL]_vars

\* C21 witness: the client that owns a refresh token past its
\* refreshTokenExpiresAt has been refused with invalid_grant before any
\* revoke or save call.
C21_Witness ==
  \E t \in Tasks :
    /\ InGrant(task[t], GRANT_RT)
    /\ CallOk(task[t], "getRefreshToken")
    /\ C21_Past(task[t]) /\ C21_Own(task[t])
    /\ C21_Refused(task[t])

\* The effective access token lifetime of a client: its own
\* accessTokenLifetime when the record sets one, otherwise the endpoint's.
C22_Lifetime(clientId) ==
  IF ClientRecord(clientId).accessTokenLifetime # 0
  THEN ClientRecord(clientId).accessTokenLifetime
  ELSE AccessTokenLifetime

C23_TokenResponseShape ==
  \A t \in Tasks :
    (task[t].ep = "token" /\ task[t].pc = "done") =>
      /\ TokenHeaders \subseteq task[t].headers
      /\ task[t].error = NULL
           => task[t].status = 200 /\ task[t].wwwAuthenticate = NULL
      /\ (task[t].error = "invalid_client" /\ task[t].header = "basic")
           => /\ task[t].status = 401
              /\ task[t].wwwAuthenticate = "Basic realm=\"Service\""
      /\ (task[t].error # NULL
          /\ ~(task[t].error = "invalid_client" /\ task[t].header = "basic"))
           => /\ task[t].status = ErrorStatus(task[t].error)
              /\ task[t].status # 401
              /\ task[t].wwwAuthenticate = NULL

\* C23 witness: one request that carried an Authorization header has been
\* answered invalid_client with 401 and the Basic challenge.
C23_Witness ==
  \E t \in Tasks :
    /\ task[t].ep = "token" /\ task[t].pc = "done"
    /\ task[t].error = "invalid_client"
    /\ task[t].header = "basic"
    /\ task[t].status = 401
    /\ task[t].wwwAuthenticate = "Basic realm=\"Service\""
    /\ TokenHeaders \subseteq task[t].headers

\* The response of a finished request is a success response of its
\* endpoint: no error body, and status 200 or, on Authorize, the 302 of
\* the redirect.
C24_Success(tk) ==
  /\ tk.error = NULL
  /\ tk.status = (IF tk.ep = "authorize" THEN 302 ELSE 200)

\* C24: on each of the five endpoints execute rejects exactly when its
\* catch has written the error response: a rejected request is finished,
\* carries an error body and a status other than 200, the body names the
\* error execute rejected with (or server_error when the endpoint wraps a
\* non-OAuth exception), and a request that finished without a rejection
\* carries a success response.
C24_RejectionAfterErrorResponse ==
  \A t \in Tasks :
    /\ task[t].rejected # NULL
         => /\ task[t].pc = "done"
            /\ task[t].error # NULL
            /\ task[t].status # 200
            /\ \/ task[t].error = task[t].rejected
               \/ /\ task[t].rejected \notin OAuthErrors
                  /\ task[t].error = "server_error"
    /\ (task[t].pc = "done" /\ task[t].rejected = NULL)
         => C24_Success(task[t])
    /\ task[t].error # NULL => task[t].rejected # NULL

\* C24 witness: a Model exception on the Revoke endpoint has been answered
\* with the error response and execute has rejected with that exception.
C24_Witness ==
  \E t \in Tasks :
    /\ task[t].ep = "revoke" /\ task[t].pc = "done"
    /\ task[t].rejected = ModelError
    /\ task[t].error = "server_error"
    /\ task[t].status = 500

C27_BadHint(tk) ==
  /\ tk.pc = "done"
  /\ tk.ep \in {"introspect", "revoke"}
  /\ tk.shape = "form-post"
  /\ ~Falsy(tk.cred)
  /\ ~Falsy(tk.tokenHint)
  /\ tk.tokenHint \notin {"access_token", "refresh_token"}

C27_BadHintUnsupportedTokenType ==
  \A t \in Tasks :
    C27_BadHint(task[t])
      => /\ task[t].error = "unsupported_token_type"
         /\ task[t].status = 400
         /\ task[t].calls = <<>>

\* ------------------------------------------------------------------------
\* C29: every grant calls Model.saveToken with the validated client first,
\* the resource owner second and the token record third, so that the
\* record the Model stores carries the generated access token, the
\* validated client and the resource owner.
\* ------------------------------------------------------------------------
\* The resource owner the grant of the task acts for.
C29_Owner(tk) ==
  IF tk.ep = "authorize" THEN tk.user
  ELSE IF tk.grantType \in {GRANT_AC, GRANT_RT} THEN tk.credUser
  ELSE IF tk.grantType = GRANT_CC THEN ClientRecord(tk.client).user
  ELSE tk.user

\* The step is the return of Model.saveToken to the task.
C29_Saves(t) ==
  /\ task[t].pc = "saveToken"
  /\ HasCall(task'[t], "saveToken")

C29_Stored(t) ==
  \E k \in tokens' :
    /\ k.accessToken = task[t].token.accessToken
    /\ ~Falsy(k.accessToken)
    /\ k.client = task[t].client
    /\ k.user = C29_Owner(task[t])

C29_SaveTokenClientUserToken ==
  [][\A t \in Tasks : C29_Saves(t) => C29_Stored(t)]_vars

\* ------------------------------------------------------------------------
\* C30: in every Token-endpoint pipeline the Model calls come in the order
\* getClient, credential lookup, validateScope, revoke, saveToken; no
\* validateScope call and no invalid_scope failure comes after the
\* consumed credential was revoked.
\* ------------------------------------------------------------------------
\* The place of a Model call in the order claimed.
C30_Rank(op) ==
  CASE op = "getClient" -> 1
    [] op \in {"getUser", "getUserFromClient", "getAuthorizationCode",
               "getRefreshToken"} -> 2
    [] op = "validateScope" -> 3
    [] op \in {"revokeAuthorizationCode", "revokeRefreshToken"} -> 4
    [] op = "saveToken" -> 5
    [] OTHER -> 0

C30_Ordered(tk) ==
  \A i, j \in 1..Len(tk.calls) :
    i < j => C30_Rank(tk.calls[i].op) < C30_Rank(tk.calls[j].op)

C30_Revoked(tk) ==
  CallOk(tk, "revokeAuthorizationCode") \/ CallOk(tk, "revokeRefreshToken")

C30_PipelineOrder ==
  \A t \in Tasks :
    task[t].ep = "token"
      => /\ C30_Ordered(task[t])
         /\ (C30_Revoked(task[t])
               => /\ task[t].pc # "validateScope"
                  /\ task[t].error # "invalid_scope")

\* ------------------------------------------------------------------------
\* C26: for every grant type g, when requireClientAuthentication[g] is
\* true and the token request carries no client_secret, the Token endpoint
\* fails with invalid_request in the TokenRequest constructor, that is
\* before Model.getClient is called.
\* ------------------------------------------------------------------------
C26_SecretRequiredAndMissing ==
  /\ call.stage = "parsed"
  /\ call.grant_type \in call.required
  /\ Falsy(call.client_secret)

C26_MissingSecretInvalidRequest ==
  C26_SecretRequiredAndMissing => call.error = "invalid_request"

\* ------------------------------------------------------------------------
\* C28: in each of the five facade methods an option given as undefined
\* leaves the endpoint default in force, and an option given as the
\* literal string 'true' or 'false' acts as the boolean true or false in
\* the handler.
\* ------------------------------------------------------------------------
C28_Resolved == call.stage \in {"handler", "parsed"}

C28_OptionsCleaned ==
  C28_Resolved =>
    /\ (call.given \in {"absent", "undefined"}
          => call.acts = (call.option.default = "true"))
    /\ (call.given \in {"true", "'true'"} => call.acts = TRUE)
    /\ (call.given \in {"false", "'false'"} => call.acts = FALSE)

\* ------------------------------------------------------------------------
\* C31: with alwaysIssueNewRefreshToken = false a refresh_token exchange
\* never calls Model.revokeRefreshToken; the record it passes to
\* Model.saveToken has an access token and the old token's scope but no
\* refreshToken and no refreshTokenExpiresAt; and its saveToken step
\* removes no stored token, so the old refresh token stays usable.
\* ------------------------------------------------------------------------
C31_Keeping(tk) == InGrant(tk, GRANT_RT) /\ ~tk.alwaysIssueNewRefreshToken

C31_NoRevoke(tk) ==
  /\ tk.pc # "revokeRefreshToken"
  /\ ~HasCall(tk, "revokeRefreshToken")

C31_Record(tk) ==
  AtSaveToken(tk)
    => /\ ~Falsy(tk.token.accessToken)
       /\ tk.token.scope = tk.credScope
       /\ tk.token.refreshToken = NULL
       /\ tk.token.refreshTokenExpiresAt = 0

C31_OldRefreshTokenKept ==
  [][\A t \in Tasks :
       C31_Keeping(task'[t])
         => /\ C31_NoRevoke(task'[t])
            /\ C31_Record(task'[t])
            /\ (task[t].pc = "saveToken" /\ HasCall(task'[t], "saveToken")
                  => tokens \subseteq tokens')]_vars

\* An exchange that kept the old refresh token has succeeded, and a second
\* exchange presenting the same refresh token has passed validation too.
C31_Witness ==
  \E t \in Tasks, u \in Tasks :
    /\ t # u
    /\ C31_Keeping(task[t])
    /\ task[t].pc = "done"
    /\ task[t].error = NULL
    /\ HasCall(task[t], "saveToken")
    /\ InGrant(task[u], GRANT_RT)
    /\ task[u].cred = task[t].cred
    /\ AtSaveToken(task[u])

\* ------------------------------------------------------------------------
\* C32: the server's default option records are never changed by a call,
\* and the options a call hands to its handler are those a newly built
\* server would hand it for the same arguments, whatever the calls before.
\* ------------------------------------------------------------------------
\* The value a newly built server resolves for the call.
C32_Fresh(c) ==
  LET opts == IF c.option.method = "authenticate" THEN c.given
              ELSE cleanOptions(c.given)
  IN IF opts = "absent" THEN c.option.default ELSE opts

C32_NoSharedState ==
  [][/\ options' = options
     /\ (call'.stage \in {"handler", "parsed"}
          => call'.effective = C32_Fresh(call'))]_vars

\* The second call leaves out the option that the call before it had set
\* to the opposite of the default, and resolves the default.
C32_Witness ==
  /\ started = 2
  /\ call.stage \in {"handler", "parsed"}
  /\ call.given = "absent"
  /\ call.before.method = call.option.method
  /\ call.before.key = call.option.key
  /\ call.before.given \in {"true", "false"}
  /\ call.before.given # call.option.default
  /\ call.effective = call.option.default

\* ------------------------------------------------------------------------
\* C33 (as the spec states it): when a Model generator (access token,
\* refresh token or authorization code) returns a falsy value, the engine
\* falls back to its own random value and the request proceeds with it.
\* ------------------------------------------------------------------------
\* The step is the return of a falsy value from the Model's generator.
C33_FalsyReturn(t) ==
  task[t].generated = "none" /\ task'[t].generated = "falsy"

\* The values of the engine's generator.
C33_Random == {generateRandomToken(n) : n \in 0..11}

\* After the step the task goes on to its save call, its record holding
\* values of the engine's generator.
C33_Proceeds(t) ==
  /\ task'[t].pc = task[t].pc
  /\ task'[t].error = NULL
  /\ (task[t].pc = "saveToken"
        => /\ task'[t].token.accessToken \in C33_Random
           /\ task'[t].token.refreshToken \in C33_Random \union {NULL})
  /\ (task[t].pc = "saveAuthorizationCode"
        => task'[t].code.authorizationCode \in C33_Random)

C33_FalsyGeneratorFallsBack ==
  [][\A t \in Tasks : C33_FalsyReturn(t) => C33_Proceeds(t)]_vars

\* C33 (amended): a falsy value from generateAccessToken or
\* generateRefreshToken makes the engine fall back to its own random
\* value; a falsy value from generateAuthorizationCode ends the Authorize
\* request with server_error, and no code is saved.
C33_TokenGeneratorFallsBack ==
  [][\A t \in Tasks :
       C33_FalsyReturn(t)
         => IF task[t].pc = "saveToken" THEN C33_Proceeds(t)
            ELSE /\ task'[t].pc = "done"
                 /\ task'[t].error = "server_error"
                 /\ ~HasCall(task'[t], "saveAuthorizationCode")]_vars

\* A Token request whose generators returned falsy values has succeeded
\* with an access token of the engine's generator.
C33_Witness ==
  \E t \in Tasks :
    /\ task[t].ep = "token"
    /\ task[t].pc = "done"
    /\ task[t].generated = "falsy"
    /\ task[t].error = NULL
    /\ HasCall(task[t], "saveToken")
    /\ task[t].body.accessToken \in C33_Random

\* ------------------------------------------------------------------------
\* C34: a request whose scope parameter is the empty string is handled as
\* a request with no scope parameter, at the Authorize endpoint and in the
\* password, client_credentials and refresh_token grants: the request
\* constructor does not reject it.
\* ------------------------------------------------------------------------
\* The request constructor has rejected the request: the task has ended
\* with an error before the Model call that follows the parsing.
C34_RejectedByConstructor(tk) ==
  /\ tk.pc = "done"
  /\ tk.error # NULL
  /\ Len(tk.calls) = (IF tk.ep = "token" THEN 1 ELSE 0)

C34_EmptyScopeAsAbsent ==
  \A t \in Tasks :
    (task[t].ep \in {"token", "authorize"} /\ task[t].reqScope = EMPTY)
      => ~C34_RejectedByConstructor(task[t])

\* ------------------------------------------------------------------------
\* C35: in the client_credentials grant, whatever the authenticated client
\* record, a request that the request constructor accepts resolves its
\* user with Model.getUserFromClient: a falsy result ends the request with
\* invalid_grant and without a saveToken call, a truthy result is the user
\* of the token record.
\* ------------------------------------------------------------------------
C35_Accepted(tk) ==
  /\ InGrant(tk, GRANT_CC)
  /\ tk.pc = "done"
  /\ tk.rejected # "invalid_argument"

C35_Resolved(tk) ==
  /\ HasCall(tk, "getUserFromClient")
  /\ (CallFalsy(tk, "getUserFromClient")
        => tk.error = "invalid_grant" /\ ~HasCall(tk, "saveToken"))
  /\ (CallOk(tk, "getUserFromClient") /\ HasCall(tk, "saveToken")
        => ~Falsy(tk.user) /\ tk.token.user = tk.user)

C35_UserFromClient ==
  \A t \in Tasks : C35_Accepted(task[t]) => C35_Resolved(task[t])

\* ------------------------------------------------------------------------
\* C36: the Bearer response of every grant of the Token endpoint includes
\* the non-standard attributes of the record Model.saveToken returned when
\* the endpoint is configured with allowExtendedTokenAttributes = true,
\* and does not include them when it is false.
\* ------------------------------------------------------------------------
C36_Answered(tk) ==
  /\ tk.ep = "token"
  /\ tk.pc = "done"
  /\ tk.error = NULL
  /\ HasCall(tk, "saveToken")

C36_ExtendedAttributes ==
  \A t \in Tasks :
    C36_Answered(task[t])
      => task[t].customAttributes = task[t].allowExtendedTokenAttributes

\* ------------------------------------------------------------------------
\* C37: the Authorize endpoint sets a Location header, for a success or an
\* error redirect, only to a URI built from a redirect URI registered for
\* the client named by client_id; a request naming an unregistered
\* redirect_uri never causes a 302 to that URI, whichever step fails.
\* A request that failed before its client_id was looked up is held to
\* the weakest reading: its Location is built from a URI that some client
\* of the Model registers.
\* ------------------------------------------------------------------------
C37_Named(tk) ==
  IF tk.clientId # NULL THEN {tk.clientId} ELSE ClientIds

C37_Registered(tk) ==
  \E id \in C37_Named(tk) :
    \E u \in ClientRecord(id).redirectUris :
      UrlParse(u, TRUE).path = tk.location.uri

C37_LocationOnlyRegistered ==
  \A t \in Tasks :
    (task[t].ep = "authorize" /\ task[t].pc = "done" /\ task[t].location.set)
      => C37_Registered(task[t])

\* ------------------------------------------------------------------------
\* C38: whenever a request of the Token endpoint ends with an error
\* response, Model.saveToken was not called during that request.
\* ------------------------------------------------------------------------
C38_NoSaveOnError ==
  \A t \in Tasks :
    (task[t].ep = "token" /\ task[t].pc = "done" /\ task[t].error # NULL)
      => ~HasCall(task[t], "saveToken")

\* ------------------------------------------------------------------------
\* C39: under every interleaving of two refresh_token exchanges that
\* present the same refresh token with alwaysIssueNewRefreshToken, and a
\* Model whose revokeRefreshToken deletes the token atomically and returns
\* truthy only if it was still stored, at most one of the two requests
\* reaches Model.saveToken, and the other, once revokeRefreshToken has
\* returned to it, has failed with invalid_grant.
\* ------------------------------------------------------------------------
C39_SameToken(t, u) ==
  /\ t # u
  /\ InGrant(task[t], GRANT_RT) /\ task[t].alwaysIssueNewRefreshToken
  /\ InGrant(task[u], GRANT_RT) /\ task[u].alwaysIssueNewRefreshToken
  /\ ~Falsy(task[t].cred)
  /\ task[u].cred = task[t].cred

C39_AtMostOneSaves ==
  \A t \in Tasks, u \in Tasks :
    C39_SameToken(t, u) =>
      /\ ~(AtSaveToken(task[t]) /\ AtSaveToken(task[u]))
      /\ ((AtSaveToken(task[t]) /\ HasCall(task[u], "revokeRefreshToken"))
            => /\ task[u].pc = "done"
               /\ task[u].error = "invalid_grant"
               /\ ~HasCall(task[u], "saveToken"))

\* Both exchanges were handed the stored token by Model.getRefreshToken
\* before either revoked it; one has called saveToken, the other has been
\* answered invalid_grant after its revocation returned falsy.
C39_Witness ==
  \E t \in Tasks, u \in Tasks :
    /\ C39_SameToken(t, u)
    /\ CallOk(task[t], "getRefreshToken")
    /\ CallOk(task[u], "getRefreshToken")
    /\ CallOk(task[t], "revokeRefreshToken")
    /\ HasCall(task[t], "saveToken")
    /\ CallFalsy(task[u], "revokeRefreshToken")
    /\ task[u].pc = "done"
    /\ task[u].error = "invalid_grant"

\* ------------------------------------------------------------------------
\* C40: for every successful Authorize request with response_type=token,
\* the expires_in value placed in the redirect fragment equals the
\* lifetime in seconds with which accessTokenExpiresAt of the token
\* persisted in the same request was computed, including when the client
\* record carries its own accessTokenLifetime.
\* ------------------------------------------------------------------------
C40_Successful(tk) ==
  /\ tk.ep = "authorize"
  /\ tk.responseType = "token"
  /\ tk.pc = "done"
  /\ tk.error = NULL
  /\ HasCall(tk, "saveToken")

\* The expires_in parameters of the fragment of the task's Location.
C40_ExpiresIn(tk) ==
  {tk.location.hash[i].v :
     i \in {j \in 1..Len(tk.location.hash) :
              tk.location.hash[j].k = "expires_in"}}

\* The lifetimes with which the expiry date of the persisted token may
\* have been computed: the date less a time of the request.
C40_LifetimeUsed(tk) ==
  {ToString(tk.body.accessTokenExpiresAt - time) : time \in {0, now}}

C40_ExpiresInIsLifetimeUsed ==
  \A t \in Tasks :
    C40_Successful(task[t])
      => /\ C40_ExpiresIn(task[t]) # {}
         /\ C40_ExpiresIn(task[t]) \subseteq C40_LifetimeUsed(task[t])

====
